---- MODULE Spec2Model ----
(***************************************************************************)
(* The Intcode interpreter of src/common/src/interpreter (mod.rs,          *)
(* opcode.rs, parameter_mode.rs) as a state machine: one Interpreter       *)
(* value and a driver that calls its public methods one at a time.         *)
(*                                                                         *)
(* Memory is the Vec<i64> `data`; Rust indexes it from 0, a TLA+ sequence  *)
(* from 1, so cell p of the code is data[p + 1] here.                      *)
(***************************************************************************)
EXTENDS Integers, Sequences, FiniteSets, TLC

VARIABLES
    data,            \* Interpreter.data: working memory
    initial,         \* Interpreter.initial: snapshot taken by new()
    cursor,          \* Interpreter.cursor (usize)
    input_stream,    \* Interpreter.input_stream
    output_stream,   \* Interpreter.output_stream
    relative_base,   \* Interpreter.relative_base
    running,         \* TRUE while the loop of run() is executing
    ret,             \* what the latest call returned
    resume,          \* history: "fed": the latest call is a push_input made right
                     \* after a step() that returned Wait; "resumed": the latest
                     \* call is a step() made right after such a push_input; else "no"
    program,         \* history: the program text given to new()
    pushed,          \* history: values given to push_input since new()/reset, in order
    received,        \* history: values written by completed Input instructions, in order
    produced,        \* history: values appended by Output instructions, in order
    popped,          \* history: values returned by pop_output, in order
    exited,          \* history: "no": no step() has returned Exit since new()/reset;
                     \* "yes": one has; "again": a later one has too; "poked": one
                     \* has, and set_value has since written the word at the cursor
    pokes,           \* number of set_value calls since new()/reset
    written,         \* history: the highest address an instruction or set_value
                     \* has written since new()/reset, -1 when there is none
    debug,           \* Interpreter.debug
    printed,         \* history: a debug line has gone to the standard output
                     \* since new()
    other,           \* a second Interpreter of the same process: its fields and
                     \* its history; the variables above hold the instance the
                     \* driver is operating
    this,            \* "first" or "second": the instance the variables above hold
    acted,           \* a call has been made on the instance the variables above
                     \* hold since the driver turned to it
    limbs,           \* representation of the i64 values of memory and queues:
                     \* FALSE: an integer of the model; TRUE: sign and decimal
                     \* limbs, for values beyond the 32 bits of TLC's integers
    pc,              \* the position of the program that owns the Interpreter
                     \* (day07, day11) inside its function; "idle" when the
                     \* methods are called one by one
    frame,           \* the local variables of that function
    sim,             \* the fields of the DrawSim of day11 beside its interpreter
    trail            \* history of that function: what it forwarded, painted
                     \* and returned

vars == <<data, initial, cursor, input_stream, output_stream, relative_base,
          running, ret, resume, program, pushed, received, produced,
          popped, exited, pokes, written, debug, printed, other, this, acted,
          limbs, pc, frame, sim, trail>>

\* The variables of the programs that own an Interpreter.
host == <<pc, frame, sim, trail>>

\* The fields of the Interpreter that the claims speak about.
core == <<data, cursor, relative_base, input_stream, output_stream>>

(***************************************************************************)
(* Bounds of the model.                                                    *)
(***************************************************************************)
\* Memory never grows beyond this many cells.
MaxLen == 7
\* Values computed by an instruction stay within -MaxVal .. MaxVal.
MaxVal == 120
\* push_input calls per epoch (since new() or the last reset).
MaxPushes == 2
\* Output instructions completed per epoch.
MaxOut == 2
\* set_value calls per epoch.
MaxPokes == 1
\* Passes of the loop of one run().
MaxPasses == 4
\* push_input calls made on a program of the tests.
MaxFeeds == 1

\* Values the driver pushes as input.
InputVals == {0, 8}
\* Values the driver pokes into memory: an Input and an Exit.
PokeVals == {3, 99}
\* Addresses the driver pokes and peeks.
Addrs == 0 .. (MaxLen - 1)

\* The program texts given to new(), already split at the commas.
Programs ==
    { <<3, 0, 3, 1, 4, 0, 99>>,    \* read two values, write the first one out
      <<104, 1, 104, 2, 99>>,      \* write two values out
      <<1002, 4, 3, 4, 33>>,       \* tests::test_simple: 33 * 3 overwrites cell 4 with 99
      <<1101, 1, 1, 5, 99>>,       \* Add writing one past the end of memory
      <<3, 1, 1108, 8, 8, 6, 99>>, \* Input into an operand of Equals, result past the end
      <<1107, 1, 2, 0, 99>>,       \* LessThan
      <<1105, 1, 4, 104, 99>>,     \* JumpIfTrue over an Output
      <<1106, 0, 3>>,              \* JumpIfFalse to the end of memory
      <<109, 2, 203, 1, 204, 1>>,  \* relative base: Input and Output relative
      <<109, 2, 209, -1, 9, 0>>,   \* relative base adjusted thrice: by 2, 2 and 109
      <<104, 1, 3>>,               \* Output, then an Input whose operand word is missing
      <<3, -1, 99>>,               \* Input to a negative destination
      <<4, -1, 1106, 0, -1>>,      \* Output from a negative address, jump to one
      <<99, 0>> }                  \* Exit at once

\* An instruction word: the opcode and the mode digits of its three operands.
InstrWord(op, m0, m1, m2) == op + 100 * m0 + 1000 * m1 + 10000 * m2

\* Instruction words with every combination of modes for as many operands as
\* the opcode has, and words that are no instruction: an unknown opcode, a
\* mode digit 3 (of an operand, or beyond the operands), a negative word.
InstrWords ==
    {InstrWord(op, m0, m1, m2) : op \in {1, 2, 7, 8}, m0 \in 0 .. 2, m1 \in 0 .. 2,
                                  m2 \in 0 .. 2}
    \cup {InstrWord(op, m0, m1, 0) : op \in {5, 6}, m0 \in 0 .. 2, m1 \in 0 .. 2}
    \cup {InstrWord(op, m0, 0, 0) : op \in {3, 4, 9}, m0 \in 0 .. 2}
    \cup {99, 199, 11104, 0, 10, 55, 100, 304, 3001, 30005, 30104, -1, -99}

\* The operand words that follow the instruction word.
InstrOperands == {<<3, 4, 6>>, <<5, 0, 5>>, <<1, 1, 4>>, <<0, 2, -3>>}

\* One-instruction programs: the relative base is set to 1 or -2, then comes
\* the instruction under test with its operand words.
InstrPrograms ==
    {<<109, k, w>> \o ops : k \in {1, -2}, w \in InstrWords, ops \in InstrOperands}

\* Programs of the tests of mod.rs.
trace_code == <<3, 3, 1105, -1, 9, 1101, 0, 0, 12, 4, 12, 99, 1>>
show_code == <<104, 50, 99>>
equals_code == <<3, 9, 8, 9, 10, 9, 4, 9, 99, -1, 8>>
quine_code == <<109, 1, 204, -1, 1001, 100, 1, 100, 1008, 100, 16, 101, 1006, 101, 0, 99>>
full_code ==
    <<3, 21, 1008, 21, 8, 20, 1005, 20, 22, 107, 8, 21, 20, 1006, 20, 31,
      1106, 0, 36, 98, 0, 0, 1002, 21, 125, 20, 4, 20, 1105, 1, 46, 104, 999, 1105, 1,
      46, 1101, 1000, 1, 20, 4, 20, 1105, 1, 46, 98, 99>>

\* Programs given to two instances at once: tests::test_jumps_and_conditions
\* (equal to 8), tests::test_simple (104,50,99), read two values and write the
\* first one out, Input and Output relative.
PairPrograms ==
    {equals_code, show_code, <<3, 0, 3, 1, 4, 0, 99>>, <<109, 2, 203, 1, 204, 1>>}

\* Programs given to an instance that is cloned: read two values and write the
\* first one out; read a value into a cell past the end of memory and write
\* it out.
ClonePrograms == {<<3, 0, 3, 1, 4, 0, 99>>, <<3, 5, 4, 5, 99>>}

\* The tests run to their end: the bounds of the model do not apply to them.
TestPrograms == {trace_code, show_code, equals_code, quine_code, full_code}

\* The programs of the tests of day07 (test_amplifiers), and two programs
\* whose output is never positive: the signal given back, and -1.
amplifier_code == <<3, 15, 3, 16, 1002, 16, 10, 16, 1, 16, 15, 15, 4, 15, 99, 0, 0>>
amplifier_code_2 ==
    <<3, 23, 3, 24, 1002, 24, 10, 24, 1002, 23, -1, 23, 101, 5, 23, 23, 1, 24, 23,
      23, 4, 23, 99, 0, 0>>
amplifier_code_3 ==
    <<3, 31, 3, 32, 1002, 32, 10, 32, 1001, 31, -2, 31, 1007, 31, 0, 33, 1002, 33,
      7, 33, 1, 33, 31, 31, 1, 32, 31, 31, 4, 31, 99, 0, 0, 0>>
echo_code == <<3, 0, 3, 1, 4, 1, 99>>
minus_code == <<104, -1, 99>>
SeriesPrograms ==
    {amplifier_code, amplifier_code_2, amplifier_code_3, echo_code, minus_code}

\* The programs of the tests of day07 (test_feedback_amplifiers), and a
\* program that gives back its signals and exits after the first one when
\* its phase is 9.
feedback_code ==
    <<3, 26, 1001, 26, -4, 26, 3, 27, 1002, 27, 2, 27, 1, 27, 26,
      27, 4, 27, 1001, 28, -1, 28, 1005, 28, 6, 99, 0, 0, 5>>
feedback_code_2 ==
    <<3, 52, 1001, 52, -5, 52, 3, 53, 1, 52, 56, 54, 1007, 54, 5, 55, 1005, 55, 26,
      1001, 54, -5, 54, 1105, 1, 12, 1, 53, 54, 53, 1008, 54, 0, 55, 1001, 55, 1,
      55, 2, 53, 55, 53, 4, 53, 1001, 56, -1, 56, 1005, 56, 6, 99, 0, 0, 0, 0, 10>>
relay_code ==
    <<3, 20, 3, 21, 4, 21, 1008, 20, 9, 22, 1005, 22, 16, 1105, 1, 2, 99,
      0, 0, 0, 0, 0, 0>>
RingPrograms == {feedback_code, feedback_code_2, relay_code}

\* Programs of a painting robot (day11): each paints the panel white and
\* turns left on a black panel, right on a white one, ten times over; the
\* first exits after its last pair of outputs, the second asks for the color
\* of the next panel before it exits.
painter_code ==
    <<3, 17, 104, 1, 4, 17, 1001, 16, -1, 16, 1005, 16, 0, 99, 0, 0, 10, 0>>
asking_painter_code ==
    <<3, 17, 104, 1, 4, 17, 1001, 16, -1, 16, 1005, 16, 0, 3, 17, 99, 10, 0>>
RobotPrograms == {painter_code, asking_painter_code}

\* The programs run by the programs of the repository that own an
\* Interpreter.
HostedPrograms == SeriesPrograms \cup RingPrograms \cup RobotPrograms

\* Values pushed as input to a program of the tests.
TestInputs == (-2 .. 11) \cup {1000}

(***************************************************************************)
(* Integer helpers.                                                        *)
(***************************************************************************)
\* Rust's / and % on i64 truncate toward zero.
quot(a, b) == IF a >= 0 THEN a \div b ELSE -((-a) \div b)
rem(a, b) == a - b * quot(a, b)

(***************************************************************************)
(* i64 values.  TLC's integers are 32 bits wide.  When limbs is FALSE an   *)
(* i64 is an integer of the model; when it is TRUE an i64 is a record      *)
(* [neg, mag]: its sign and the limbs of its magnitude in radix 10000,     *)
(* least significant first, without leading zero limbs (0 is <<>>, not     *)
(* negative), and +, *, < and to_string are computed on the limbs.         *)
(***************************************************************************)
\* The radix of the limbs: four decimal digits.
Radix == 10000

\* The limbs of a natural number of the model.
RECURSIVE MagOf(_)
MagOf(n) == IF n = 0 THEN <<>> ELSE <<n % Radix>> \o MagOf(n \div Radix)

\* An i64 from its sign and magnitude.
Signed(neg, mag) == [neg |-> neg /\ mag # <<>>, mag |-> mag]

\* The i64 of an integer of the model.
widen(n) == Signed(n < 0, MagOf(IF n < 0 THEN -n ELSE n))

Limb(mag, i) == IF i <= Len(mag) THEN mag[i] ELSE 0
Rest(mag) == IF mag = <<>> THEN <<>> ELSE Tail(mag)

\* The magnitude without its leading zero limbs.
RECURSIVE Trim(_)
Trim(mag) ==
    IF mag # <<>> /\ mag[Len(mag)] = 0 THEN Trim(SubSeq(mag, 1, Len(mag) - 1)) ELSE mag

\* a + b + carry
RECURSIVE MagAdd(_, _, _)
MagAdd(a, b, carry) ==
    IF a = <<>> /\ b = <<>>
    THEN (IF carry = 0 THEN <<>> ELSE <<carry>>)
    ELSE LET sum == Limb(a, 1) + Limb(b, 1) + carry
         IN  <<sum % Radix>> \o MagAdd(Rest(a), Rest(b), sum \div Radix)

\* a - b - borrow, for a >= b + borrow; leading zero limbs are left in
RECURSIVE MagSub(_, _, _)
MagSub(a, b, borrow) ==
    IF a = <<>>
    THEN <<>>
    ELSE LET diff == a[1] - Limb(b, 1) - borrow
         IN  <<IF diff < 0 THEN diff + Radix ELSE diff>>
             \o MagSub(Tail(a), Rest(b), IF diff < 0 THEN 1 ELSE 0)

\* a * digit + carry, for one limb digit
RECURSIVE MagScale(_, _, _)
MagScale(a, digit, carry) ==
    IF a = <<>>
    THEN (IF carry = 0 THEN <<>> ELSE <<carry>>)
    ELSE LET product == a[1] * digit + carry
         IN  <<product % Radix>> \o MagScale(Tail(a), digit, product \div Radix)

\* a * b, limb by limb
RECURSIVE MagMul(_, _)
MagMul(a, b) ==
    IF a = <<>> \/ b = <<>>
    THEN <<>>
    ELSE Trim(MagAdd(MagScale(a, b[1], 0), <<0>> \o MagMul(a, Tail(b)), 0))

\* a < b
MagLess(a, b) ==
    IF Len(a) # Len(b)
    THEN Len(a) < Len(b)
    ELSE \E i \in 1 .. Len(a) :
            a[i] < b[i] /\ \A j \in (i + 1) .. Len(a) : a[j] = b[j]

\* i64::MAX = 9223372036854775807
MaxI64 == <<5807, 5477, 368, 3372, 922>>

\* The value is one an i64 holds (i64::MIN apart).
FitsI64(x) == ~MagLess(MaxI64, x.mag)

wide_add(x, y) ==
    IF x.neg = y.neg
    THEN Signed(x.neg, MagAdd(x.mag, y.mag, 0))
    ELSE IF MagLess(x.mag, y.mag)
    THEN Signed(y.neg, Trim(MagSub(y.mag, x.mag, 0)))
    ELSE Signed(x.neg, Trim(MagSub(x.mag, y.mag, 0)))

\* Mutant of wide_mul: the product keeps its eight lowest decimal digits only
\* (a narrower word).
wide_mul_low(x, y) ==
    LET mag == MagMul(x.mag, y.mag)
    IN  Signed(x.neg # y.neg, Trim(SubSeq(mag, 1, IF Len(mag) < 2 THEN Len(mag) ELSE 2)))

wide_mul(x, y) == Signed(x.neg # y.neg, MagMul(x.mag, y.mag))

wide_less(x, y) ==
    IF x.neg # y.neg
    THEN x.neg
    ELSE IF x.neg THEN MagLess(y.mag, x.mag) ELSE MagLess(x.mag, y.mag)

\* A limb with its leading zeros.
Pad4(limb) ==
    (IF limb < 10 THEN "000" ELSE IF limb < 100 THEN "00" ELSE IF limb < 1000 THEN "0"
     ELSE "") \o ToString(limb)

RECURSIVE MagToString(_)
MagToString(mag) ==
    IF mag = <<>> THEN "0"
    ELSE IF Len(mag) = 1 THEN ToString(mag[1])
    ELSE MagToString(Tail(mag)) \o Pad4(mag[1])

wide_to_string(x) == (IF x.neg THEN "-" ELSE "") \o MagToString(x.mag)

\* The integer of the model for an i64 below 10^8 in magnitude; a larger one
\* is used as an address only, and is replaced by 10^8, an address beyond every
\* memory of the model.
narrow(x) ==
    LET n == IF Len(x.mag) > 2 THEN Radix * Radix
             ELSE Limb(x.mag, 1) + Radix * Limb(x.mag, 2)
    IN  IF x.neg THEN -n ELSE n

\* An integer literal of the code as an i64.
lit(n) == IF limbs THEN widen(n) ELSE n

\* An i64 used as a cursor, an address, an offset of the relative base or an
\* instruction word.
small(v) == IF limbs THEN narrow(v) ELSE v

\* v1 + v2, v1 * v2 and v1 < v2 on i64, and i64::to_string
i64_add(v1, v2) == IF limbs THEN wide_add(v1, v2) ELSE v1 + v2
i64_mul(v1, v2) == IF limbs THEN wide_mul(v1, v2) ELSE v1 * v2
i64_less(v1, v2) == IF limbs THEN wide_less(v1, v2) ELSE v1 < v2
i64_to_string(v) == IF limbs THEN wide_to_string(v) ELSE ToString(v)

\* usize is 64 bits wide and `v as usize` wraps a negative i64 to 2^64 + v.  The
\* model keeps the wrap-around with a modulus TLC's integers can hold: every
\* wrapped address lies above every memory length and every value of the model.
UsizeWrap == 1000000000
as_usize(v) == IF v < 0 THEN UsizeWrap + v ELSE v

(***************************************************************************)
(* parameter_mode.rs                                                       *)
(***************************************************************************)
\* Mutant of ParameterMode_parse: an unknown digit is read as Position.
ParameterMode_parse_lenient(value) ==
    CASE value = 1 -> "Immediate"
      [] value = 2 -> "Relative"
      [] OTHER -> "Position"

\* ParameterMode::parse; "panic" is the panic of its last arm.
ParameterMode_parse(value) ==
    CASE value = 0 -> "Position"
      [] value = 1 -> "Immediate"
      [] value = 2 -> "Relative"
      [] OTHER -> "panic"

(***************************************************************************)
(* opcode.rs                                                               *)
(***************************************************************************)
Register(value, mode) == [value |-> value, mode |-> mode]

\* The while loop of OpCode::parse: the mode digits, least significant first.
RECURSIVE parameters_of(_)
parameters_of(base) ==
    IF base > 0
    THEN <<ParameterMode_parse(rem(base, 10))>> \o parameters_of(quot(base, 10))
    ELSE <<>>

\* Mutant of from_stream: the mode digits are taken most significant first.
from_stream_reversed(idx, stream, parameters) ==
    Register(stream[idx + 1],
             IF idx + 1 <= Len(parameters)
             THEN parameters[Len(parameters) - idx] ELSE "Position")

\* Register::from_stream, for idx < Len(stream); the caller models the panic of
\* stream[idx] for the other indexes.
from_stream(idx, stream, parameters) ==
    Register(stream[idx + 1],
             IF idx + 1 <= Len(parameters) THEN parameters[idx + 1] ELSE "Position")

\* The opcode names of the match in OpCode::parse.
OpName(code) ==
    CASE code = 1 -> "Add"
      [] code = 2 -> "Multiply"
      [] code = 3 -> "Store"
      [] code = 4 -> "Show"
      [] code = 5 -> "JumpIfTrue"
      [] code = 6 -> "JumpIfFalse"
      [] code = 7 -> "LessThan"
      [] code = 8 -> "Equals"
      [] code = 9 -> "AdjustRelativeBase"
      [] code = 99 -> "Exit"
      [] OTHER -> "Unsupported"

\* Mutant of Arity: a jump is taken to have three operands.
Arity_wide_jumps(name) ==
    CASE name \in {"Add", "Multiply", "LessThan", "Equals", "JumpIfTrue",
                   "JumpIfFalse"} -> 3
      [] name \in {"Store", "Show", "AdjustRelativeBase"} -> 1
      [] OTHER -> 0

\* Strings joined with a separator, as the format strings of OpCode::dump do.
RECURSIVE join_with(_, _)
join_with(sep, strs) ==
    IF strs = <<>> THEN ""
    ELSE IF Len(strs) = 1 THEN strs[1]
    ELSE strs[1] \o sep \o join_with(sep, Tail(strs))

\* The number of registers each arm of the match builds.
Arity(name) ==
    CASE name \in {"Add", "Multiply", "LessThan", "Equals"} -> 3
      [] name \in {"JumpIfTrue", "JumpIfFalse"} -> 2
      [] name \in {"Store", "Show", "AdjustRelativeBase"} -> 1
      [] OTHER -> 0

\* The words of the stream a register is built from: the whole arg_stream, or
\* nothing when an index is out of bounds.
ArgsAvailable(n, arg_stream) == n <= Len(arg_stream)

\* OpCode::parse on a non-empty stream.  panic is "" when it returns, and else
\* names the panic: "mode" (ParameterMode::parse, raised while the mode digits
\* are read, before the opcode is looked at), "opcode" (unsupported opcode),
\* "index" (stream[idx] out of bounds in Register::from_stream).
OpCode_parse(code_stream) ==
    LET parametered_code == small(code_stream[1])
        code == rem(parametered_code, 100)
        parameters == parameters_of(quot(parametered_code, 100))
        arg_stream == Tail(code_stream)
        name == OpName(code)
        n == Arity(name)
        failed(why) == [panic |-> why, name |-> name, regs |-> <<>>, count |-> 0]
    IN  IF \E i \in 1 .. Len(parameters) : parameters[i] = "panic"
        THEN failed("mode")
        ELSE IF name = "Unsupported"
        THEN failed("opcode")
        ELSE IF ~ArgsAvailable(n, arg_stream)
        THEN failed("index")
        ELSE [panic |-> "", name |-> name,
              regs |-> [i \in 1 .. n |-> from_stream(i - 1, arg_stream, parameters)],
              count |-> n + 1]

\* show_reg of OpCode::dump: format!("{}"), "[{}]", "[B{}]", "[B+{}]"
show_reg(reg) ==
    CASE reg.mode = "Position" -> i64_to_string(reg.value)
      [] reg.mode = "Immediate" -> "[" \o i64_to_string(reg.value) \o "]"
      [] reg.mode = "Relative" /\ i64_less(reg.value, lit(0)) -> "[B" \o i64_to_string(reg.value) \o "]"
      [] reg.mode = "Relative" /\ reg.value >= 0 -> "[B+" \o i64_to_string(reg.value) \o "]"

\* The mnemonics of OpCode::dump.
Mnemonic(name) ==
    CASE name = "Add" -> "ADD"
      [] name = "Multiply" -> "MUL"
      [] name = "Store" -> "STORE"
      [] name = "Show" -> "SHOW"
      [] name = "JumpIfTrue" -> "JMPT"
      [] name = "JumpIfFalse" -> "JMPF"
      [] name = "LessThan" -> "LT"
      [] name = "Equals" -> "EQ"
      [] name = "AdjustRelativeBase" -> "ARB"
      [] name = "Exit" -> "EXIT"

\* Mutant of dump: the registers are listed without a separator after the
\* first one.
dump_first_only(opcode) ==
    LET r == opcode.regs
    IN  IF r = <<>> THEN Mnemonic(opcode.name)
        ELSE Mnemonic(opcode.name) \o " " \o show_reg(r[1])

\* OpCode::dump: the mnemonic, then the registers separated by ", ".
dump(opcode) ==
    LET r == opcode.regs
    IN  IF r = <<>> THEN Mnemonic(opcode.name)
        ELSE Mnemonic(opcode.name) \o " " \o join_with(", ", [i \in 1 .. Len(r) |-> show_reg(r[i])])

(***************************************************************************)
(* mod.rs: memory                                                          *)
(***************************************************************************)
\* allocate_memory pushes one cell at a time: an address that is a wrapped
\* negative i64 asks for more than 2^63 cells, which no allocation can hold,
\* and the process dies in Vec::push (capacity overflow or allocation failure).
Unallocatable(position) == position >= UsizeWrap \div 2

\* Mutant of allocate_memory: the loop runs over data_len .. up_to and stops
\* one cell short.
allocate_memory_short(d, up_to) ==
    IF up_to < Len(d) \/ Unallocatable(up_to)
    THEN [panic |-> TRUE, data |-> d]
    ELSE [panic |-> FALSE, data |-> d \o [i \in 1 .. (up_to - Len(d)) |-> 0]]

\* Interpreter::allocate_memory: it panics when up_to < data_len, and else the
\* loop over data_len ..= up_to pushes up_to - data_len + 1 zeros.
allocate_memory(d, up_to) ==
    IF up_to < Len(d) \/ Unallocatable(up_to)
    THEN [panic |-> TRUE, data |-> d]
    ELSE [panic |-> FALSE, data |-> d \o [i \in 1 .. (up_to + 1 - Len(d)) |-> lit(0)]]

\* Mutant of get_value: a cell outside memory reads as 1.
get_value_one(d, position) == IF position >= Len(d) THEN 1 ELSE d[position + 1]

\* Mutant of get_value: the last cell counts as outside memory.
get_value_short(d, position) == IF position + 1 >= Len(d) THEN 0 ELSE d[position + 1]

\* Interpreter::get_value
get_value(d, position) == IF position >= Len(d) THEN lit(0) ELSE d[position + 1]

\* Mutant of set_value: memory is resized to end at the cell written
\* (Vec::resize), so a write below the last cell cuts the cells above it.
set_value_resizing(d, position, value) ==
    IF Unallocatable(position)
    THEN [panic |-> TRUE, data |-> d]
    ELSE [panic |-> FALSE,
          data |-> [i \in 1 .. (position + 1) |->
                      IF i = position + 1 THEN value
                      ELSE IF i <= Len(d) THEN d[i] ELSE 0]]

\* Interpreter::set_value; self.data[position] = value panics when position is
\* not below the length.
set_value(d, position, value) ==
    LET grown == IF position >= Len(d)
                 THEN allocate_memory(d, position)
                 ELSE [panic |-> FALSE, data |-> d]
    IN  IF grown.panic \/ position >= Len(grown.data)
        THEN [panic |-> TRUE, data |-> grown.data]
        ELSE [panic |-> FALSE, data |-> [grown.data EXCEPT ![position + 1] = value]]

(***************************************************************************)
(* mod.rs: queues                                                          *)
(***************************************************************************)
\* Interpreter::push_input
push_input(ins, input) == Append(ins, input)

\* Mutants of pop_input: the head is read and left in the queue; the tail is
\* popped (Vec::pop, as the earlier revision of the interpreter does).
pop_input_peek(ins) == [value |-> Head(ins), rest |-> ins]
pop_input_last(ins) == [value |-> ins[Len(ins)], rest |-> SubSeq(ins, 1, Len(ins) - 1)]

\* Interpreter::pop_input on a non-empty queue: Vec::remove(0)
pop_input(ins) == [value |-> Head(ins), rest |-> Tail(ins)]

\* Mutant of push_output: with the debug flag set the value is only printed.
push_output_unless_debug(outs, value) == IF debug THEN outs ELSE Append(outs, value)

\* Interpreter::push_output
push_output(outs, value) == Append(outs, value)

\* Mutant of pop_output: the tail is popped (Vec::pop).
pop_output_last(outs) ==
    [value |-> outs[Len(outs)], rest |-> SubSeq(outs, 1, Len(outs) - 1)]

\* Interpreter::pop_output on a non-empty queue: Vec::remove(0)
pop_output(outs) == [value |-> Head(outs), rest |-> Tail(outs)]

\* i64::to_string and [String]::join(",") of Interpreter::dump_output
RECURSIVE join(_)
join(strs) ==
    IF strs = <<>> THEN ""
    ELSE IF Len(strs) = 1 THEN strs[1]
    ELSE strs[1] \o "," \o join(Tail(strs))
dump_output(outs) == join([i \in 1 .. Len(outs) |-> i64_to_string(outs[i])])

(***************************************************************************)
(* mod.rs: registers                                                       *)
(***************************************************************************)
\* Mutant of read_register: a Relative operand is read as a Position operand.
read_register_absolute(reg) ==
    CASE reg.mode = "Position" -> get_value(data, as_usize(reg.value))
      [] reg.mode = "Immediate" -> reg.value
      [] reg.mode = "Relative" -> get_value(data, as_usize(reg.value))

\* Interpreter::read_register
read_register(reg) ==
    CASE reg.mode = "Position" -> get_value(data, as_usize(small(reg.value)))
      [] reg.mode = "Immediate" -> reg.value
      [] reg.mode = "Relative" ->
           get_value(data, as_usize(relative_base + small(reg.value)))

\* Mutant of read_output_register: the base is subtracted from a Relative
\* operand.
read_output_register_backwards(reg) ==
    CASE reg.mode = "Position" -> reg.value
      [] reg.mode = "Immediate" -> reg.value
      [] reg.mode = "Relative" -> reg.value - relative_base

\* Interpreter::read_output_register
read_output_register(reg) ==
    CASE reg.mode = "Position" -> small(reg.value)
      [] reg.mode = "Immediate" -> small(reg.value)
      [] reg.mode = "Relative" -> relative_base + small(reg.value)

\* Mutant of adjust_relative_base: the value replaces the base.
adjust_relative_base_set(value) == value

\* Interpreter::adjust_relative_base: the new relative base
adjust_relative_base(value) == relative_base + small(value)

\* Interpreter::get_stream_at_cursor for cursor <= Len(data); the slice panics
\* for a cursor beyond the length.
get_stream_at_cursor == SubSeq(data, cursor + 1, Len(data))

(***************************************************************************)
(* mod.rs: Interpreter::step                                               *)
(*                                                                         *)
(* step_outcome is what one call of step() does to the fields, computed    *)
(* from the current state.  state is the ExecutionState returned, or       *)
(* "Panic" when the call panics; got holds the value an Input instruction  *)
(* took from the queue, put the value an Output instruction appended and   *)
(* wrote the address the instruction passed to set_value.                  *)
(***************************************************************************)
Outcome(state, name, d, c, rb, ins, outs, got, put, wrote) ==
    [state |-> state, name |-> name, data |-> d, cursor |-> c, relative_base |-> rb,
     input_stream |-> ins, output_stream |-> outs, got |-> got, put |-> put,
     wrote |-> wrote]

\* Mutant of Panicked: the panic comes after the next input was taken from
\* the queue.
Panicked_consuming(name) ==
    Outcome("Panic", name, data, cursor, relative_base,
            IF input_stream = <<>> THEN <<>> ELSE Tail(input_stream), output_stream,
            <<>>, <<>>, <<>>)

\* A panic before any field was assigned.
Panicked(name) ==
    Outcome("Panic", name, data, cursor, relative_base, input_stream, output_stream,
            <<>>, <<>>, <<>>)

\* Mutant of halt: the cursor moves past the Exit instruction.
halt_advancing(name) ==
    Outcome("Exit", name, data, cursor + 1, relative_base, input_stream,
            output_stream, <<>>, <<>>, <<>>)

\* return (opcode, ExecutionState::Exit): no field is assigned.
halt(name) ==
    Outcome("Exit", name, data, cursor, relative_base, input_stream, output_stream,
            <<>>, <<>>, <<>>)

\* set_value(v3 as usize, value) followed by advance_cursor(count), with the
\* input queue as the instruction left it.
write_and_advance(name, v3, value, count, ins, got) ==
    LET w == set_value(data, as_usize(v3), value)
    IN  IF w.panic
        THEN Outcome("Panic", name, data, cursor, relative_base, ins, output_stream,
                     got, <<>>, <<>>)
        ELSE Outcome("Next", name, w.data, cursor + count, relative_base, ins,
                     output_stream, got, <<>>, <<as_usize(v3)>>)

\* set_cursor_value(o as usize) or advance_cursor(count)
jump(name, taken, o, count) ==
    Outcome("Next", name, data, IF taken THEN as_usize(small(o)) ELSE cursor + count,
            relative_base, input_stream, output_stream, <<>>, <<>>, <<>>)

\* Mutants of the comparisons: Equals answers 1 for operands that differ,
\* LessThan compares its operands the other way round.
equals_inverted(v1, v2) == IF v1 = v2 THEN 0 ELSE 1
less_than_swapped(v1, v2) == IF v2 < v1 THEN 1 ELSE 0

\* The value the Equals and LessThan arms write: if v1 == v2 { 1 } else { 0 },
\* if v1 < v2 { 1 } else { 0 }.
equals(v1, v2) == IF v1 = v2 THEN lit(1) ELSE lit(0)
less_than(v1, v2) == IF i64_less(v1, v2) THEN lit(1) ELSE lit(0)

\* The arm of the match in step() for a parsed instruction.
execute(opcode) ==
    LET r == opcode.regs
        count == opcode.count
        name == opcode.name
    IN  CASE name = "Add" ->
               write_and_advance(name, read_output_register(r[3]),
                                 i64_add(read_register(r[1]), read_register(r[2])),
                                 count, input_stream, <<>>)
          [] name = "Multiply" ->
               write_and_advance(name, read_output_register(r[3]),
                                 i64_mul(read_register(r[1]), read_register(r[2])),
                                 count, input_stream, <<>>)
          [] name = "Store" ->
               IF input_stream = <<>>
               THEN Outcome("Wait", name, data, cursor, relative_base, input_stream,
                            output_stream, <<>>, <<>>, <<>>)
               ELSE LET p == pop_input(input_stream)
                    IN  write_and_advance(name, read_output_register(r[1]), p.value,
                                          count, p.rest, <<p.value>>)
          [] name = "Show" ->
               LET v == read_register(r[1])
               IN  Outcome("Next", name, data, cursor + count, relative_base,
                           input_stream, push_output(output_stream, v), <<>>, <<v>>,
                           <<>>)
          [] name = "JumpIfTrue" ->
               jump(name, read_register(r[1]) # lit(0), read_register(r[2]), count)
          [] name = "JumpIfFalse" ->
               jump(name, read_register(r[1]) = lit(0), read_register(r[2]), count)
          [] name = "LessThan" ->
               write_and_advance(name, read_output_register(r[3]),
                                 less_than(read_register(r[1]), read_register(r[2])),
                                 count, input_stream, <<>>)
          [] name = "Equals" ->
               write_and_advance(name, read_output_register(r[3]),
                                 equals(read_register(r[1]), read_register(r[2])),
                                 count, input_stream, <<>>)
          [] name = "AdjustRelativeBase" ->
               Outcome("Next", name, data, cursor + count,
                       adjust_relative_base(read_register(r[1])),
                       input_stream, output_stream, <<>>, <<>>, <<>>)
          [] name = "Exit" -> halt(name)

step_outcome ==
    IF cursor > Len(data)
    THEN Panicked("slice")
    ELSE IF get_stream_at_cursor = <<>>
    THEN halt("Exit")
    ELSE LET opcode == OpCode_parse(get_stream_at_cursor)
         IN  IF opcode.panic # "" THEN Panicked(opcode.panic) ELSE execute(opcode)

(***************************************************************************)
(* The driver: one action per call of a public method.                     *)
(***************************************************************************)
\* What a call returned: the method, the ExecutionState of a step() ("None"
\* for the other methods, "Panic" for a call that panicked), whether an
\* Option result is Some, the address argument and the value (argument or
\* result; for run() and the steps of its loop, the trace built so far, with
\* the number of passes of the loop as arg).  For reset_intepreter, which has neither, arg is the cursor the
\* call found.
Ret(op, state, has, arg, value) ==
    [op |-> op, state |-> state, has |-> has, arg |-> arg, value |-> value]

\* A panic ends the process: nothing is called after it.
Alive == ret.state # "Panic"

\* The latest call was a step() that returned Wait.
LastWait == ret.op = "step" /\ ret.state = "Wait"

\* The outcome stays inside the bounds of the model.
WithinBounds(o) ==
    \/ limbs /\ \A i \in 1 .. Len(o.data) : FitsI64(o.data[i])
    \/ ~limbs /\ program \in TestPrograms
    \/ ~limbs /\ program \in HostedPrograms /\ pc # "idle"
    \/ /\ ~limbs
       /\ Len(o.data) <= MaxLen
       /\ \A i \in 1 .. Len(o.data) :
              (i > Len(data) \/ o.data[i] # data[i]) =>
                  (o.data[i] >= -MaxVal /\ o.data[i] <= MaxVal)
       /\ o.relative_base >= -MaxVal /\ o.relative_base <= MaxVal
       /\ Len(produced) + Len(o.put) <= MaxOut
       /\ running => ret.arg < MaxPasses

\* The fields and the history of the instance the driver is operating.
This ==
    [built |-> TRUE, data |-> data, initial |-> initial, cursor |-> cursor,
     input_stream |-> input_stream, output_stream |-> output_stream,
     relative_base |-> relative_base, debug |-> debug, ret |-> ret,
     resume |-> resume, program |-> program, pushed |-> pushed,
     received |-> received, produced |-> produced, popped |-> popped,
     exited |-> exited, pokes |-> pokes, written |-> written, printed |-> printed]

\* Interpreter::new as a value: the instance new(code) returns.
NewInstance(code) ==
    [built |-> TRUE, data |-> code, initial |-> code, cursor |-> 0,
     input_stream |-> <<>>, output_stream |-> <<>>,
     relative_base |-> 0, debug |-> FALSE, ret |-> Ret("new", "None", FALSE, 0, 0),
     resume |-> "no", program |-> code, pushed |-> <<>>,
     received |-> <<>>, produced |-> <<>>, popped |-> <<>>,
     exited |-> "no", pokes |-> 0, written |-> -1, printed |-> FALSE]

\* No second instance has been built.
NoInstance == [NewInstance(<<>>) EXCEPT !.built = FALSE]

\* The process holds one Interpreter.
Unpaired == other = NoInstance /\ this = "first" /\ acted = FALSE

\* A method takes &mut self and the fields are owned values (Vec<i64>, usize,
\* i64, bool): a call reaches no other instance.
Solo == acted' = TRUE /\ UNCHANGED <<other, this>>

\* The methods are called one by one, by no program of the repository.
Unhosted == pc = "idle" /\ frame = <<>> /\ sim = <<>> /\ trail = <<>>

\* Interpreter::new
Init ==
    /\ program \in Programs
    /\ data = program
    /\ initial = program
    /\ cursor = 0
    /\ output_stream = <<>>
    /\ input_stream = <<>>
    /\ relative_base = 0
    /\ running = FALSE
    /\ ret = Ret("new", "None", FALSE, 0, 0)
    /\ resume = "no"
    /\ pushed = <<>>
    /\ received = <<>>
    /\ produced = <<>>
    /\ popped = <<>>
    /\ exited = "no"
    /\ pokes = 0
    /\ written = -1
    /\ debug = FALSE
    /\ printed = FALSE
    /\ limbs = FALSE
    /\ Unhosted
    /\ Unpaired

\* Interpreter::new on a one-instruction program
InitInstr ==
    /\ program \in InstrPrograms
    /\ data = program
    /\ initial = program
    /\ cursor = 0
    /\ output_stream = <<>>
    /\ input_stream = <<>>
    /\ relative_base = 0
    /\ running = FALSE
    /\ ret = Ret("new", "None", FALSE, 0, 0)
    /\ resume = "no"
    /\ pushed = <<>>
    /\ received = <<>>
    /\ produced = <<>>
    /\ popped = <<>>
    /\ exited = "no"
    /\ pokes = 0
    /\ written = -1
    /\ debug = FALSE
    /\ printed = FALSE
    /\ limbs = FALSE
    /\ Unhosted
    /\ Unpaired

\* The OpCode a step() returns with its state: OpCode::Exit for an empty
\* stream, and else the instruction parsed.
step_opcode ==
    IF get_stream_at_cursor = <<>>
    THEN [panic |-> "", name |-> "Exit", regs |-> <<>>, count |-> 1]
    ELSE OpCode_parse(get_stream_at_cursor)

\* Mutant of run_output: the line of the step that ends the loop is left out.
run_output_next_only(o) ==
    IF running /\ o.state = "Next"
    THEN ret.value \o dump(step_opcode) \o "\n"
    ELSE IF running THEN ret.value ELSE 0

\* The local `output` of run() after a pass of its loop: the dump of the
\* opcode and a newline are pushed whatever the state; a step() that panics
\* unwinds through run().  A step() called by the driver has no trace.
run_output(o) ==
    IF running /\ o.state # "Panic"
    THEN ret.value \o dump(step_opcode) \o "\n"
    ELSE 0

\* Interpreter::new on a program of the tests
InitTests ==
    /\ program \in TestPrograms
    /\ data = program
    /\ initial = program
    /\ cursor = 0
    /\ output_stream = <<>>
    /\ input_stream = <<>>
    /\ relative_base = 0
    /\ running = FALSE
    /\ ret = Ret("new", "None", FALSE, 0, 0)
    /\ resume = "no"
    /\ pushed = <<>>
    /\ received = <<>>
    /\ produced = <<>>
    /\ popped = <<>>
    /\ exited = "no"
    /\ pokes = 0
    /\ written = -1
    /\ debug = FALSE
    /\ printed = FALSE
    /\ limbs = FALSE
    /\ Unhosted
    /\ Unpaired

\* One call of step(), by the driver or by the loop of run().
DoStep(o) ==
    /\ WithinBounds(o)
    /\ data' = o.data
    /\ cursor' = o.cursor
    /\ relative_base' = o.relative_base
    /\ input_stream' = o.input_stream
    /\ output_stream' = o.output_stream
    /\ ret' = Ret("step", o.state, FALSE, IF running THEN ret.arg + 1 ELSE 0,
                  run_output(o))
    /\ resume' = IF resume = "fed" THEN "resumed" ELSE "no"
    /\ received' = IF o.state = "Next" THEN received \o o.got ELSE received
    /\ produced' = produced \o o.put
    /\ exited' = IF o.state = "Exit"
                  THEN (IF exited \in {"yes", "again"} THEN "again" ELSE "yes")
                  ELSE exited
    /\ written' = IF o.wrote # <<>> /\ o.wrote[1] > written
                   THEN o.wrote[1] ELSE written
    /\ UNCHANGED <<initial, program, pushed, popped, pokes>>
    /\ printed' = (printed \/ (debug /\ cursor < Len(data)))
    /\ UNCHANGED debug
    /\ Solo
    /\ UNCHANGED <<limbs, host>>

\* Mutant of Step: a step() may return Exit without executing anything.
Step_flaky ==
    /\ Alive /\ ~running
    /\ \E o \in {step_outcome, halt("Exit")} : DoStep(o)
    /\ UNCHANGED running

\* Interpreter::step called by the driver
Step ==
    /\ Alive /\ ~running
    /\ DoStep(step_outcome)
    /\ UNCHANGED running

\* Interpreter::run: entering the loop
Run ==
    /\ Alive /\ ~running
    /\ running' = TRUE
    /\ ret' = Ret("run", "None", FALSE, 0, "")
    /\ resume' = "no"
    /\ UNCHANGED <<core, initial, program, pushed, received, produced, popped,
                   exited, pokes, written>>
    /\ printed' = (printed \/ debug)
    /\ UNCHANGED debug
    /\ Solo
    /\ UNCHANGED <<limbs, host>>

\* Mutant of RunLoop: the loop breaks on Exit only.
RunLoop_through_wait ==
    /\ Alive /\ running
    /\ DoStep(step_outcome)
    /\ running' = (step_outcome.state \in {"Next", "Wait"})

\* Interpreter::run: one pass of the loop; it breaks on Exit and on Wait
RunLoop ==
    /\ Alive /\ running
    /\ DoStep(step_outcome)
    /\ running' = (step_outcome.state = "Next")

\* Mutant of PushInput: the input queue is shared with the other instance
\* (a clone that copies a reference to the queue).
PushInput_shared ==
    /\ Alive /\ ~running
    /\ Len(pushed) < MaxPushes
    /\ \E input \in InputVals :
        /\ input_stream' = push_input(input_stream, input)
        /\ pushed' = Append(pushed, input)
        /\ ret' = Ret("push_input", "None", FALSE, 0, input)
        /\ other' = IF other.built
                     THEN [other EXCEPT !.input_stream = push_input(@, input)]
                     ELSE other
    /\ resume' = IF LastWait THEN "fed" ELSE "no"
    /\ acted' = TRUE
    /\ UNCHANGED <<data, initial, cursor, output_stream, relative_base, running,
                   program, received, produced, popped, exited, pokes, written,
                   debug, printed, this, limbs, host>>

\* Interpreter::push_input
PushInput ==
    /\ Alive /\ ~running
    /\ Len(pushed) < MaxPushes
    /\ \E input \in InputVals :
        /\ input_stream' = push_input(input_stream, input)
        /\ pushed' = Append(pushed, input)
        /\ ret' = Ret("push_input", "None", FALSE, 0, input)
    /\ resume' = IF LastWait THEN "fed" ELSE "no"
    /\ UNCHANGED <<data, initial, cursor, output_stream, relative_base, running,
                   program, received, produced, popped, exited, pokes, written>>
    /\ UNCHANGED <<debug, printed>>
    /\ Solo
    /\ UNCHANGED <<limbs, host>>

\* Interpreter::push_input called by a test
Feed ==
    /\ Alive /\ ~running
    /\ Len(pushed) < MaxFeeds
    /\ \E input \in TestInputs :
        /\ input_stream' = push_input(input_stream, input)
        /\ pushed' = Append(pushed, input)
        /\ ret' = Ret("push_input", "None", FALSE, 0, input)
    /\ resume' = IF LastWait THEN "fed" ELSE "no"
    /\ UNCHANGED <<data, initial, cursor, output_stream, relative_base, running,
                   program, received, produced, popped, exited, pokes, written>>
    /\ UNCHANGED <<debug, printed>>
    /\ Solo
    /\ UNCHANGED <<limbs, host>>

\* Interpreter::pop_output
PopOutput ==
    /\ Alive /\ ~running
    /\ IF output_stream = <<>>
       THEN /\ ret' = Ret("pop_output", "None", FALSE, 0, 0)
            /\ UNCHANGED <<output_stream, popped>>
       ELSE LET p == pop_output(output_stream)
            IN  /\ ret' = Ret("pop_output", "None", TRUE, 0, p.value)
                /\ output_stream' = p.rest
                /\ popped' = Append(popped, p.value)
    /\ resume' = "no"
    /\ UNCHANGED <<data, initial, cursor, input_stream, relative_base, running,
                   program, pushed, received, produced, exited, pokes, written>>
    /\ UNCHANGED <<debug, printed>>
    /\ Solo
    /\ UNCHANGED <<limbs, host>>

\* A set_value(position, _) rewrites or creates the word step() fetches next.
TouchesCursor(position) ==
    position = cursor \/ (position >= Len(data) /\ cursor >= Len(data))

\* Interpreter::set_value called by the driver
SetValue ==
    /\ Alive /\ ~running
    /\ pokes < MaxPokes
    /\ \E position \in Addrs, value \in PokeVals :
        LET w == set_value(data, position, value)
        IN  /\ data' = IF w.panic THEN data ELSE w.data
            /\ ret' = Ret("set_value", IF w.panic THEN "Panic" ELSE "None", FALSE,
                          position, value)
            /\ exited' = IF exited \in {"yes", "again"} /\ TouchesCursor(position)
                          THEN "poked" ELSE exited
            /\ written' = IF ~w.panic /\ position > written
                           THEN position ELSE written
            /\ printed' = (printed \/ (debug /\ position >= Len(data)))
    /\ pokes' = pokes + 1
    /\ resume' = "no"
    /\ UNCHANGED <<initial, cursor, input_stream, output_stream, relative_base,
                   running, program, pushed, received, produced, popped>>
    /\ UNCHANGED debug
    /\ Solo
    /\ UNCHANGED <<limbs, host>>

\* Interpreter::get_value called by the driver
GetValue ==
    /\ Alive /\ ~running
    /\ \E position \in Addrs :
        ret' = Ret("get_value", "None", FALSE, position, get_value(data, position))
    /\ resume' = "no"
    /\ UNCHANGED <<core, initial, running, program, pushed, received, produced,
                   popped, exited, pokes, written>>
    /\ UNCHANGED <<debug, printed>>
    /\ Solo
    /\ UNCHANGED <<limbs, host>>

\* Mutant of ResetIntepreter: the relative base is not restored.
ResetIntepreter_keeping_base ==
    /\ Alive /\ ~running
    /\ data' = initial
    /\ cursor' = 0
    /\ input_stream' = <<>>
    /\ output_stream' = <<>>
    /\ ret' = Ret("reset_intepreter", "None", FALSE, cursor, 0)
    /\ resume' = "no"
    /\ pushed' = <<>>
    /\ received' = <<>>
    /\ produced' = <<>>
    /\ popped' = <<>>
    /\ exited' = "no"
    /\ pokes' = 0
    /\ written' = -1
    /\ UNCHANGED <<initial, running, program, relative_base>>
    /\ UNCHANGED <<debug, printed>>
    /\ Solo
    /\ UNCHANGED <<limbs, host>>

\* Interpreter::reset_intepreter
ResetIntepreter ==
    /\ Alive /\ ~running
    /\ data' = initial
    /\ cursor' = 0
    /\ input_stream' = <<>>
    /\ output_stream' = <<>>
    /\ relative_base' = 0
    /\ ret' = Ret("reset_intepreter", "None", FALSE, cursor, 0)
    /\ resume' = "no"
    /\ pushed' = <<>>
    /\ received' = <<>>
    /\ produced' = <<>>
    /\ popped' = <<>>
    /\ exited' = "no"
    /\ pokes' = 0
    /\ written' = -1
    /\ UNCHANGED <<initial, running, program>>
    /\ UNCHANGED <<debug, printed>>
    /\ Solo
    /\ UNCHANGED <<limbs, host>>

\* The driver runs the program: it steps or runs it, feeds it, takes its output,
\* pokes its memory and resets it.
Next ==
    \/ Step
    \/ Run
    \/ RunLoop
    \/ PushInput
    \/ PopOutput
    \/ SetValue
    \/ ResetIntepreter

Spec == Init /\ [][Next]_vars

\* The driver inspects memory: it peeks and pokes it between steps.
NextMem ==
    \/ Step
    \/ SetValue
    \/ GetValue
    \/ ResetIntepreter

SpecMem == Init /\ [][NextMem]_vars

\* The driver executes a one-instruction program: it steps or runs it and
\* feeds it.
NextInstr ==
    \/ Step
    \/ Run
    \/ RunLoop
    \/ PushInput

SpecInstr == InitInstr /\ [][NextInstr]_vars

\* A test feeds its program and steps or runs it.
NextTests ==
    \/ Step
    \/ Run
    \/ RunLoop
    \/ Feed

SpecTests == InitTests /\ [][NextTests]_vars

\* Values beyond 32 bits: 34915192 and 2^50 of tests::test_relative,
\* -3000000000 and 2^31.
WideInputs ==
    {widen(34915192), Signed(FALSE, <<2624, 684, 8999, 1125>>),
     Signed(TRUE, <<0, 0, 30>>), Signed(FALSE, <<3648, 4748, 21>>)}

\* Programs run on values beyond 32 bits: the two of tests::test_relative
\* (104,1125899906842624,99 and 1102,34915192,34915192,7,4,7,99,0), and a
\* program that reads two values into cells 30 and 31 and writes out their sum,
\* whether the first is less than the second, and their product.
big_code == <<widen(104), Signed(FALSE, <<2624, 684, 8999, 1125>>), widen(99)>>
product_code == [i \in 1 .. 8 |-> widen(<<1102, 34915192, 34915192, 7, 4, 7, 99, 0>>[i])]
arith_code ==
    [i \in 1 .. 23 |->
        widen(<<3, 30, 3, 31, 1, 30, 31, 32, 4, 32, 7, 30, 31, 32, 4, 32,
                2, 30, 31, 32, 4, 32, 99>>[i])]
WidePrograms == {big_code, product_code, arith_code}

\* Interpreter::new on a program with values beyond 32 bits
InitWide ==
    /\ program \in WidePrograms
    /\ data = program
    /\ initial = program
    /\ cursor = 0
    /\ output_stream = <<>>
    /\ input_stream = <<>>
    /\ relative_base = 0
    /\ running = FALSE
    /\ ret = Ret("new", "None", FALSE, 0, 0)
    /\ resume = "no"
    /\ pushed = <<>>
    /\ received = <<>>
    /\ produced = <<>>
    /\ popped = <<>>
    /\ exited = "no"
    /\ pokes = 0
    /\ written = -1
    /\ debug = FALSE
    /\ printed = FALSE
    /\ limbs = TRUE
    /\ Unhosted
    /\ Unpaired

\* Interpreter::push_input of a value beyond 32 bits
FeedWide ==
    /\ Alive /\ ~running
    /\ Len(pushed) < MaxPushes
    /\ \E input \in WideInputs :
        /\ input_stream' = push_input(input_stream, input)
        /\ pushed' = Append(pushed, input)
        /\ ret' = Ret("push_input", "None", FALSE, 0, input)
    /\ resume' = IF LastWait THEN "fed" ELSE "no"
    /\ UNCHANGED <<data, initial, cursor, output_stream, relative_base, running,
                   program, received, produced, popped, exited, pokes, written>>
    /\ UNCHANGED <<debug, printed>>
    /\ Solo
    /\ UNCHANGED <<limbs, host>>

\* The driver feeds, steps and runs a program with values beyond 32 bits.
NextWide ==
    \/ Step
    \/ Run
    \/ RunLoop
    \/ FeedWide

SpecWide == InitWide /\ [][NextWide]_vars

\* Interpreter::set_debug_mode; it returns nothing and is not recorded as a call.
SetDebugMode ==
    /\ Alive /\ ~running
    /\ \E value \in BOOLEAN : debug' = value
    /\ UNCHANGED <<core, initial, running, ret, resume, program, pushed, received,
                   produced, popped, exited, pokes, written, printed, other, this,
                   acted, limbs, host>>

\* The driver turns to its other instance.
Switch ==
    /\ other.built /\ ~running
    /\ other' = This
    /\ data' = other.data
    /\ initial' = other.initial
    /\ cursor' = other.cursor
    /\ input_stream' = other.input_stream
    /\ output_stream' = other.output_stream
    /\ relative_base' = other.relative_base
    /\ debug' = other.debug
    /\ ret' = other.ret
    /\ resume' = other.resume
    /\ program' = other.program
    /\ pushed' = other.pushed
    /\ received' = other.received
    /\ produced' = other.produced
    /\ popped' = other.popped
    /\ exited' = other.exited
    /\ pokes' = other.pokes
    /\ written' = other.written
    /\ printed' = other.printed
    /\ this' = IF this = "first" THEN "second" ELSE "first"
    /\ acted' = FALSE
    /\ UNCHANGED <<running, limbs, host>>

\* Two calls of Interpreter::new on the same program text.
InitTwin ==
    /\ program \in PairPrograms
    /\ data = program
    /\ initial = program
    /\ cursor = 0
    /\ output_stream = <<>>
    /\ input_stream = <<>>
    /\ relative_base = 0
    /\ running = FALSE
    /\ ret = Ret("new", "None", FALSE, 0, 0)
    /\ resume = "no"
    /\ pushed = <<>>
    /\ received = <<>>
    /\ produced = <<>>
    /\ popped = <<>>
    /\ exited = "no"
    /\ pokes = 0
    /\ written = -1
    /\ debug = FALSE
    /\ printed = FALSE
    /\ limbs = FALSE
    /\ Unhosted
    /\ other = NewInstance(program)
    /\ this = "first"
    /\ acted = FALSE

\* The call a returned value is of, with its arguments: the steps of the loop
\* of run() belong to the run().
CallOf(r) ==
    [op |-> IF r.op = "step" /\ r.arg > 0 THEN "run" ELSE r.op,
     position |-> IF r.op = "set_value" THEN r.arg ELSE 0,
     value |-> IF r.op \in {"push_input", "set_value"} THEN r.value ELSE 0]

\* Addresses the driver of two instances pokes: the first instruction word and
\* the last cell the model allows.
PairAddrs == {0, MaxLen - 1}

\* One call of push_input, set_value, step or run (with the passes of its loop).
Call ==
    /\ ~acted \/ running
    /\ Step \/ Run \/ RunLoop \/ PushInput \/ SetValue
    /\ ret'.op = "set_value" => ret'.arg \in PairAddrs

\* The driver makes a call on the first instance.
Lead == this = "first" /\ Call

\* The driver makes on the second instance the call it has made on the first.
Follow ==
    /\ this = "second"
    /\ Call
    /\ ~running => CallOf(ret') = CallOf(other.ret)

\* After a call has returned the driver turns to the other instance.
Turn == acted /\ Switch

\* The driver sets the debug flag of the second instance before its first
\* call, as run_and_dump does.
Configure == this = "second" /\ ret.op = "new" /\ SetDebugMode

\* The driver operates two instances built from the same text in step: every
\* call on the first is repeated on the second.
NextTwin ==
    \/ Lead
    \/ Follow
    \/ Turn
    \/ Configure

SpecTwin == InitTwin /\ [][NextTwin]_vars

\* #[derive(Clone)] on the struct: every field is cloned, and Vec<i64> clones
\* its cells.
clone(instance) == instance

\* interpreter.clone(), as run_feedback_phase_sequence calls it
Clone ==
    /\ Alive /\ ~running
    /\ ~other.built
    /\ other' = clone(This)
    /\ UNCHANGED <<core, initial, running, ret, resume, program, pushed, received,
                   produced, popped, exited, pokes, written, debug, printed, this,
                   acted, limbs, host>>

\* Interpreter::new on a program that will be cloned
InitClone ==
    /\ program \in ClonePrograms
    /\ data = program
    /\ initial = program
    /\ cursor = 0
    /\ output_stream = <<>>
    /\ input_stream = <<>>
    /\ relative_base = 0
    /\ running = FALSE
    /\ ret = Ret("new", "None", FALSE, 0, 0)
    /\ resume = "no"
    /\ pushed = <<>>
    /\ received = <<>>
    /\ produced = <<>>
    /\ popped = <<>>
    /\ exited = "no"
    /\ pokes = 0
    /\ written = -1
    /\ debug = FALSE
    /\ printed = FALSE
    /\ limbs = FALSE
    /\ Unhosted
    /\ Unpaired

\* The driver operates an instance, clones it once and then operates the
\* original and the clone in any order, as run_feedback_phase_sequence does
\* with its amplifiers: it feeds, steps and resets them and takes their
\* output.
NextClone ==
    \/ Step
    \/ PushInput
    \/ PopOutput
    \/ ResetIntepreter
    \/ Clone
    \/ Switch

SpecClone == InitClone /\ [][NextClone]_vars

(***************************************************************************)
(* The vocabulary of the specification, used to state the claims.  These   *)
(* definitions follow the words of the specification, not the code.        *)
(***************************************************************************)
\* There is a word at the cursor, and the word itself.
HasWord == cursor < Len(data)
WordAtCursor == data[cursor + 1]

\* memory.read(addr) for an address (a non-negative integer): 0 at and beyond
\* the end of memory (specification 3).
MemRead(d, addr) == IF addr < Len(d) THEN d[addr + 1] ELSE 0

\* Operand i (0, 1, 2) of the instruction at the cursor lies inside memory, and
\* its raw value: the word that follows the instruction word at distance i + 1.
HasOperand(i) == cursor + 1 + i < Len(data)
OperandWord(i) == MemRead(data, cursor + 1 + i)

\* The mode digit of operand i: digit i of the word without its opcode, the
\* least significant digit first.
ModeDigit(w, i) == ((w \div 100) \div (10 ^ i)) % 10

\* Every mode digit of the word is 0, 1 or 2 (a word of the model has at most
\* eight digits after the opcode).
ValidModes(w) == \A i \in 0 .. 7 : ModeDigit(w, i) \in {0, 1, 2}

\* The opcode of a word and the operand count of an opcode (specification 4.1).
OpcodeOf(w) == w % 100
Operands(op) ==
    CASE op \in {1, 2, 7, 8} -> 3
      [] op \in {5, 6} -> 2
      [] op \in {3, 4, 9} -> 1
      [] OTHER -> 0

\* The word at the cursor is a well-formed instruction with this opcode.
InstructionAtCursor(op) ==
    /\ HasWord
    /\ WordAtCursor > 0
    /\ OpcodeOf(WordAtCursor) = op
    /\ ValidModes(WordAtCursor)

\* The destination address of write operand i of the instruction at the
\* cursor (specification 4.2): Position -> r, Relative -> relative base + r.
Destination(i) ==
    IF ModeDigit(WordAtCursor, i) = 2
    THEN relative_base + OperandWord(i)
    ELSE OperandWord(i)

\* Memory d after write(addr, v) (specification 3): the store grows to cover
\* addr, the new cells other than addr hold 0, the old ones keep their value.
Max(a, b) == IF a >= b THEN a ELSE b
MemWrite(d, addr, v) ==
    [i \in 1 .. Max(Len(d), addr + 1) |->
        IF i = addr + 1 THEN v ELSE IF i <= Len(d) THEN d[i] ELSE 0]

\* A comma-separated listing of values, built from its last value backwards.
RECURSIVE CommaList(_)
CommaList(vals) ==
    IF vals = <<>> THEN ""
    ELSE LET n == Len(vals)
             front == CommaList(SubSeq(vals, 1, n - 1))
         IN  IF n = 1 THEN ToString(vals[n]) ELSE front \o "," \o ToString(vals[n])

(***************************************************************************)
(* The claims.                                                             *)
(***************************************************************************)

\* C1: a step() called while the instruction at the cursor is an Input and the
\* input queue is empty returns Wait and leaves memory, cursor, relative base
\* and both queues as they were.
C1_WaitLeavesStateUnchanged ==
    [][(ret'.op = "step" /\ InstructionAtCursor(3) /\ input_stream = <<>>)
        => (ret'.state = "Wait" /\ UNCHANGED core)]_vars

\* C2: after a step() that returned Wait, push_input(v) followed by step()
\* completes that Input once: v is written to the destination (a memory
\* address: Position or Relative mode, not negative), one value leaves the
\* input queue, the output queue is as it was, the cursor advances by 2 and
\* the state returned is Next.
C2_ResumeCompletesOnce ==
    [][(/\ resume = "fed" /\ ret'.op = "step"
        /\ ModeDigit(WordAtCursor, 0) # 1
        /\ Destination(0) >= 0)
        => (/\ ret'.state = "Next"
            /\ InstructionAtCursor(3)
            /\ data' = MemWrite(data, Destination(0), ret.value)
            /\ input_stream # <<>>
            /\ input_stream' = Tail(input_stream)
            /\ input_stream' = <<>>
            /\ output_stream' = output_stream
            /\ cursor' = cursor + 2
            /\ relative_base' = relative_base)]_vars

\* C2 witness: a step() that resumed a waiting Input has returned Next.
C2_Witness ==
    /\ resume = "resumed"
    /\ ret.op = "step" /\ ret.state = "Next"
    /\ received # <<>>
    /\ cursor = 2

\* C3: step() returns Wait if and only if the instruction at the cursor is an
\* Input and the input queue is empty.
C3_WaitIffInputOnEmptyQueue ==
    [][ret'.op = "step"
        => ((ret'.state = "Wait") <=> (InstructionAtCursor(3) /\ input_stream = <<>>))]_vars

\* C4: the k-th Input instruction that completes receives the k-th value
\* pushed since new() or the last reset.
C4_InputFifo ==
    /\ Len(received) <= Len(pushed)
    /\ \A k \in 1 .. Len(received) : received[k] = pushed[k]

\* C4 witness: two Input instructions have completed with different values,
\* the second value pushed before the first Input ran.
C4_Witness ==
    /\ Len(received) = 2
    /\ received[1] # received[2]
    /\ ret.op = "step"

\* C5: pop_output returns the earliest value produced and not yet popped, or
\* nothing, changing nothing, when the queue is empty; the output queue and
\* dump_output list the values not yet popped in the order they were produced.
C5_OutputFifo ==
    /\ [](/\ produced = popped \o output_stream
          /\ dump_output(output_stream)
                 = CommaList(SubSeq(produced, Len(popped) + 1, Len(produced))))
    /\ [][ret'.op = "pop_output"
           => IF Len(popped) = Len(produced)
              THEN ~ret'.has /\ UNCHANGED core
              ELSE /\ ret'.has
                   /\ ret'.value = produced[Len(popped) + 1]
                   /\ popped' = Append(popped, ret'.value)
                   /\ UNCHANGED <<data, cursor, relative_base, input_stream>>]_vars

\* C5 witness: two different values were produced, the first one has been
\* popped and the second one is still queued.
C5_Witness ==
    /\ Len(produced) = 2
    /\ produced[1] # produced[2]
    /\ ret.op = "pop_output" /\ ret.has /\ ret.value = produced[1]
    /\ output_stream = <<produced[2]>>

\* C6 as claimed: once a step() has returned Exit, every later step() before a
\* reset returns Exit and changes no state, whatever the driver did in between.
C6_ExitIsTerminal ==
    [][(exited # "no" /\ ret'.op = "step")
        => (ret'.state = "Exit" /\ UNCHANGED core)]_vars

\* C6 as amended: once a step() has returned Exit, every later step() before a
\* reset returns Exit and changes no state, whatever the driver did in between
\* with push_input, pop_output and set_value, as long as no set_value wrote the
\* word at the cursor.
C6_ExitIsTerminalUnlessPoked ==
    [][(exited \in {"yes", "again"} /\ ret'.op = "step")
        => (ret'.state = "Exit" /\ UNCHANGED core)]_vars

\* C6 witness: a step() after the one that returned Exit has returned Exit too,
\* with a value pushed and a memory cell poked in between or before.
C6_Witness ==
    /\ exited = "again"
    /\ ret.op = "step" /\ ret.state = "Exit"
    /\ input_stream # <<>>
    /\ pokes = 1

\* C7: reset_intepreter leaves memory equal to the program given to new(),
\* cursor 0, relative base 0 and both queues empty; no operation changes the
\* initial snapshot.
C7_ResetRestoresNew ==
    /\ [](initial = program)
    /\ [][ret'.op = "reset_intepreter"
           => (/\ data' = program
               /\ cursor' = 0
               /\ relative_base' = 0
               /\ input_stream' = <<>>
               /\ output_stream' = <<>>)]_vars

\* C7 witness: a reset was made with the cursor past the first instruction and
\* left the state of new().
C7_Witness ==
    /\ ret.op = "reset_intepreter"
    /\ ret.arg > 0
    /\ data = program /\ cursor = 0 /\ relative_base = 0
    /\ input_stream = <<>> /\ output_stream = <<>>

\* C8: set_value(addr, v) with addr at or beyond the memory length does not
\* fail; afterwards the length is addr + 1, cell addr holds v, the cells from
\* the old length to addr - 1 hold 0 and the old cells are unchanged.
C8_SetValueGrows ==
    [][(ret'.op = "set_value" /\ ret'.arg >= Len(data))
        => (/\ ret'.state # "Panic"
            /\ Len(data') = ret'.arg + 1
            /\ data'[ret'.arg + 1] = ret'.value
            /\ \A i \in (Len(data) + 1) .. ret'.arg : data'[i] = 0
            /\ \A i \in 1 .. Len(data) : data'[i] = data[i])]_vars

\* C8 witness: a set_value beyond the end of memory has left a gap of zeros.
C8_Witness ==
    /\ ret.op = "set_value" /\ ret.state = "None"
    /\ ret.arg > Len(program)
    /\ Len(data) = ret.arg + 1
    /\ data[ret.arg + 1] = ret.value /\ ret.value # 0
    /\ data[ret.arg] = 0

\* C9: get_value(addr) returns the stored value for addr below the memory
\* length and 0 for addr at or beyond it, and changes nothing.
C9_GetValue ==
    /\ [](ret.op = "get_value"
            => /\ ret.state # "Panic"
               /\ ret.value = IF ret.arg < Len(data) THEN data[ret.arg + 1] ELSE 0)
    /\ [][ret'.op = "get_value" => UNCHANGED core]_vars

\* C9 witness: a get_value at the memory length, just past a last cell that is
\* not 0, has returned 0.
C9_Witness ==
    /\ ret.op = "get_value"
    /\ ret.arg = Len(data)
    /\ data[Len(data)] # 0
    /\ ret.value = 0

\* The instruction at the cursor is well formed and one of its operand words
\* lies at or beyond the end of memory.
TruncatedAtCursor ==
    /\ HasWord
    /\ WordAtCursor > 0
    /\ OpcodeOf(WordAtCursor) \in 1 .. 9
    /\ ValidModes(WordAtCursor)
    /\ ~HasOperand(Operands(OpcodeOf(WordAtCursor)) - 1)

\* C10: when the opcode word lies inside memory and an operand word does not,
\* step() reads the missing operand as 0 and executes the instruction: it
\* returns a state instead of failing.
C10_MissingOperandsReadAsZero ==
    [][(ret'.op = "step" /\ TruncatedAtCursor)
        => ret'.state \in {"Next", "Wait", "Exit"}]_vars


\* C11: between two resets the memory length never decreases from one
\* operation (step, set_value, push_input, pop_output) to the next, and at
\* every moment it is greater than every address written so far by an
\* instruction or by set_value.
C11_MemoryNeverShrinks ==
    /\ [](written < Len(data))
    /\ [][ret'.op \in {"step", "set_value", "push_input", "pop_output"}
           => Len(data') >= Len(data)]_vars

\* C11 witness: an instruction has written beyond the end of the program, a
\* set_value has then written a cell below it, and memory still covers both.
C11_Witness ==
    /\ written >= Len(program)
    /\ ret.op = "set_value" /\ ret.state = "None"
    /\ ret.arg < written
    /\ Len(data) = written + 1


(***************************************************************************)
(* The instruction set in the words of the specification (4.1, 4.2, 4.3).  *)
(***************************************************************************)
\* The instruction an opcode stands for, under the name the code gives it
\* (Input is Store, Output is Show).
InstructionName(op) ==
    CASE op = 1 -> "Add"
      [] op = 2 -> "Multiply"
      [] op = 3 -> "Store"
      [] op = 4 -> "Show"
      [] op = 5 -> "JumpIfTrue"
      [] op = 6 -> "JumpIfFalse"
      [] op = 7 -> "LessThan"
      [] op = 8 -> "Equals"
      [] op = 9 -> "AdjustRelativeBase"
      [] op = 99 -> "Exit"

\* The addressing mode a mode digit stands for.
ModeName(digit) ==
    CASE digit = 0 -> "Position"
      [] digit = 1 -> "Immediate"
      [] digit = 2 -> "Relative"

\* The instruction width of an opcode.
Width(op) ==
    CASE op \in {1, 2, 7, 8} -> 4
      [] op \in {5, 6} -> 3
      [] op \in {3, 4, 9} -> 2
      [] op = 99 -> 1

\* Read operand i of the instruction at the cursor: the address it reads
\* (Position and Relative modes) and the value it resolves to.
ReadAddress(i) ==
    IF ModeDigit(WordAtCursor, i) = 2
    THEN relative_base + OperandWord(i)
    ELSE OperandWord(i)
ReadOperand(i) ==
    IF ModeDigit(WordAtCursor, i) = 1
    THEN OperandWord(i)
    ELSE MemRead(data, ReadAddress(i))

\* Read operand i names no negative address.
Readable(i) == ModeDigit(WordAtCursor, i) = 1 \/ ReadAddress(i) >= 0

\* What the decoder returns for the stream at the cursor, when it returns.
Decoded == OpCode_parse(get_stream_at_cursor)
Decodes == cursor < Len(data) /\ Decoded.panic = ""

\* C12: the decoder yields the instruction of opcode w mod 100 for the word w
\* at the cursor, and for each operand i the mode of digit i of w div 100,
\* the least significant digit first and Position for an absent digit, with
\* the words that follow w as the raw operand values.  1002 decodes to
\* Multiply with modes Position, Immediate, Position.
C12_Decode ==
    /\ Decodes =>
        /\ Decoded.name = InstructionName(OpcodeOf(WordAtCursor))
        /\ \A i \in 0 .. 2 :
              i < Len(Decoded.regs) =>
                 /\ Decoded.regs[i + 1].mode = ModeName(ModeDigit(WordAtCursor, i))
                 /\ Decoded.regs[i + 1].value = OperandWord(i)
    /\ LET m == OpCode_parse(<<1002, 4, 3, 4, 33>>)
       IN  /\ m.name = "Multiply"
           /\ m.regs = <<Register(4, "Position"), Register(3, "Immediate"),
                         Register(4, "Position")>>

\* C12 witness: step() has decoded and executed a three-operand instruction
\* whose mode digits are 0, 1 and 2 in this order, every operand word
\* different.
C12_Witness ==
    /\ ret.op = "step" /\ ret.state = "Next"
    /\ cursor = 6
    /\ ModeDigit(program[3], 0) = 0
    /\ ModeDigit(program[3], 1) = 1
    /\ ModeDigit(program[3], 2) = 2
    /\ program[4] # program[5] /\ program[5] # program[6]

\* The step() that makes this transition completes a jump instruction whose
\* jump is taken.
JumpTaken ==
    \/ OpcodeOf(WordAtCursor) = 5 /\ ReadOperand(0) # 0
    \/ OpcodeOf(WordAtCursor) = 6 /\ ReadOperand(0) = 0

\* C13: for every recognized opcode the decoder reports the width 4 (Add,
\* Multiply, LessThan, Equals), 3 (JumpIfTrue, JumpIfFalse), 2 (Input, Output,
\* AdjustRelativeBase) or 1 (Exit), whatever the mode digits, and every
\* instruction that completes without jumping or exiting advances the cursor
\* by that width.
C13_Width ==
    /\ [](Decodes => Decoded.count = Width(OpcodeOf(WordAtCursor)))
    /\ [][(/\ ret'.op = "step" /\ ret'.state = "Next"
           /\ \/ OpcodeOf(WordAtCursor) \notin {5, 6}
              \/ Readable(0) /\ ~JumpTaken)
           => cursor' = cursor + Width(OpcodeOf(WordAtCursor))]_vars

\* C13 witness: a jump that was not taken, its operands in Immediate and
\* Relative mode, has advanced the cursor by 3.
C13_Witness ==
    /\ ret.op = "step" /\ ret.state = "Next"
    /\ OpcodeOf(program[3]) \in {5, 6}
    /\ ModeDigit(program[3], 0) = 1
    /\ ModeDigit(program[3], 1) = 2
    /\ cursor = 5
    /\ program[5] # 5


\* The word is no instruction: its opcode is not recognized or one of its
\* mode digits is not 0, 1 or 2.
BadWord(w) == OpcodeOf(w) \notin (1 .. 9) \cup {99} \/ ~ValidModes(w)

\* C14: a step() on a word whose opcode is not one of 1..9 or 99, or that
\* carries a mode digit other than 0, 1 and 2, fails fatally: it returns no
\* state and changes nothing, the loop of run() is left, and no call is made
\* after it, so that the cursor never moves past the word.
C14_DecodeErrorIsFatal ==
    /\ [][(ret'.op = "step" /\ HasWord /\ BadWord(WordAtCursor))
           => (ret'.state = "Panic" /\ ~running' /\ UNCHANGED core)]_vars
    /\ [][ret.state # "Panic"]_vars
    /\ [](ret.state = "Panic" => ~running)

\* C14 witness: a step() has failed on an Output word that carries a mode
\* digit 3 beyond its operand, after values were pushed.
C14_Witness ==
    /\ ret.op = "step" /\ ret.state = "Panic"
    /\ HasWord /\ OpcodeOf(WordAtCursor) = 4 /\ ~ValidModes(WordAtCursor)
    /\ ModeDigit(WordAtCursor, 0) = 1
    /\ cursor = 2 /\ relative_base # 0
    /\ input_stream # <<>>


\* The write operand of an opcode that writes: the third operand of Add,
\* Multiply, LessThan and Equals, the operand of Input.
WriteIndex(op) == IF op = 3 THEN 0 ELSE 2

\* The instruction at the cursor is well formed, writes, and its write operand
\* is in Immediate mode.
ImmediateWriteAtCursor ==
    /\ HasWord
    /\ WordAtCursor > 0
    /\ ValidModes(WordAtCursor)
    /\ OpcodeOf(WordAtCursor) \in {1, 2, 3, 7, 8}
    /\ ModeDigit(WordAtCursor, WriteIndex(OpcodeOf(WordAtCursor))) = 1

\* C15: a step() on an instruction whose write operand is in Immediate mode
\* fails fast: it does not complete the instruction, writes no memory cell and
\* does not advance the cursor.
C15_ImmediateWriteFailsFast ==
    [][(ret'.op = "step" /\ ImmediateWriteAtCursor)
        => (ret'.state # "Next" /\ data' = data /\ cursor' = cursor)]_vars

\* The number of read operands of an opcode: they are its first operands.
Reads(op) ==
    CASE op \in {1, 2, 5, 6, 7, 8} -> 2
      [] op \in {4, 9} -> 1
      [] OTHER -> 0

\* C16: a read operand with raw value r resolves to memory.read(r) in
\* Position mode, to r in Immediate mode and to memory.read(relative base + r)
\* in Relative mode, with the relative base and the memory the step starts
\* from; an Output, which only resolves its operand and queues the value,
\* leaves memory, relative base and input queue as they were.
C16_ReadOperand ==
    /\ [](Decodes =>
            \A i \in 0 .. 1 :
               (i < Reads(OpcodeOf(WordAtCursor)) /\ Readable(i))
                  => read_register(Decoded.regs[i + 1]) = ReadOperand(i))
    /\ [][(/\ ret'.op = "step" /\ ret'.state = "Next"
           /\ OpcodeOf(WordAtCursor) = 4 /\ Readable(0))
           => (/\ output_stream' = Append(output_stream, ReadOperand(0))
               /\ UNCHANGED <<data, relative_base, input_stream>>)]_vars

\* C16 witness: an Output in Relative mode, the relative base not 0, has
\* queued the value of the cell at relative base + r, which differs from the
\* value of cell r.
C16_Witness ==
    /\ ret.op = "step" /\ ret.state = "Next"
    /\ program[3] = 204
    /\ relative_base # 0
    /\ relative_base + program[4] \in 0 .. (Len(data) - 1)
    /\ output_stream = <<data[relative_base + program[4] + 1]>>
    /\ output_stream # <<MemRead(data, program[4])>>


\* The value an arithmetic or comparison instruction at the cursor computes
\* from its two read operands.
Computed ==
    LET a == ReadOperand(0)
        b == ReadOperand(1)
        op == OpcodeOf(WordAtCursor)
    IN  CASE op = 1 -> a + b
          [] op = 2 -> a * b
          [] op = 7 -> IF a < b THEN 1 ELSE 0
          [] op = 8 -> IF a = b THEN 1 ELSE 0

\* C17: a write operand with raw value r designates address r in Position
\* mode and relative base + r in Relative mode, the relative base being the one
\* the step starts with; a completed Add, Multiply, LessThan, Equals or Input
\* has written its value (the head of the input queue for Input) to that
\* address, has left every other cell that existed as it was, and has filled
\* with 0 the cells created below that address.
C17_WriteOperand ==
    [][(/\ ret'.op = "step" /\ ret'.state = "Next"
        /\ OpcodeOf(WordAtCursor) \in {1, 2, 3, 7, 8}
        /\ ModeDigit(WordAtCursor, WriteIndex(OpcodeOf(WordAtCursor))) # 1)
        => LET dest == Destination(WriteIndex(OpcodeOf(WordAtCursor)))
           IN  /\ dest >= 0
               /\ Len(data') = Max(Len(data), dest + 1)
               /\ \A i \in 1 .. Len(data') :
                     i # dest + 1 => data'[i] = IF i <= Len(data) THEN data[i] ELSE 0
               /\ OpcodeOf(WordAtCursor) = 3 => data'[dest + 1] = Head(input_stream)
               /\ (OpcodeOf(WordAtCursor) # 3 /\ Readable(0) /\ Readable(1))
                     => data'[dest + 1] = Computed]_vars

\* C17 witness: an instruction with a Relative write operand, the relative
\* base not 0, has changed the cell at relative base + r, which is not cell r.
C17_Witness ==
    /\ ret.op = "step" /\ ret.state = "Next"
    /\ cursor = 6
    /\ ModeDigit(program[3], 2) = 2
    /\ relative_base = program[2] /\ relative_base # 0
    /\ written = relative_base + program[6]
    /\ data[written + 1] # program[written + 1]
    /\ \A i \in 1 .. Len(program) : i # written + 1 => data[i] = program[i]


\* C18: a step() on Add, Multiply, LessThan or Equals (operands at addresses
\* that are not negative, destination not Immediate) returns Next, writes
\* a + b, a * b, (1 if a < b else 0), (1 if a = b else 0) to the resolved
\* destination, a and b being the read operands resolved in the memory the
\* step starts from, advances the cursor by 4 and leaves relative base and both
\* queues as they were.
C18_Arithmetic ==
    [][(/\ ret'.op = "step"
        /\ \E op \in {1, 2, 7, 8} : InstructionAtCursor(op)
        /\ ModeDigit(WordAtCursor, 2) # 1
        /\ Readable(0) /\ Readable(1)
        /\ Destination(2) >= 0)
        => (/\ ret'.state = "Next"
            /\ data' = MemWrite(data, Destination(2), Computed)
            /\ cursor' = cursor + 4
            /\ UNCHANGED <<relative_base, input_stream, output_stream>>)]_vars

\* C19: a step() on JumpIfTrue (JumpIfFalse), its operands at addresses that
\* are not negative, returns Next and sets the cursor to the second read
\* operand (not negative) when the first one is not 0 (is 0), and else
\* advances it by 3; memory, relative base and both queues stay as they were.
C19_Jumps ==
    [][(/\ ret'.op = "step"
        /\ \E op \in {5, 6} : InstructionAtCursor(op)
        /\ Readable(0) /\ Readable(1)
        /\ JumpTaken => ReadOperand(1) >= 0)
        => (/\ ret'.state = "Next"
            /\ cursor' = IF JumpTaken THEN ReadOperand(1) ELSE cursor + 3
            /\ UNCHANGED <<data, relative_base, input_stream, output_stream>>)]_vars


\* C20: an AdjustRelativeBase that completes has added its resolved read
\* operand to the relative base and advanced the cursor by 2; the relative
\* base is 0 after new() and after reset_intepreter, and no other instruction
\* and no other operation (push_input, pop_output, set_value, run) changes it.
C20_RelativeBase ==
    /\ [](ret.op \in {"new", "reset_intepreter"} => relative_base = 0)
    /\ [][IF ret'.op = "step" /\ ret'.state = "Next" /\ OpcodeOf(WordAtCursor) = 9
          THEN /\ cursor' = cursor + 2
               /\ Readable(0) => relative_base' = relative_base + ReadOperand(0)
          ELSE ret'.op # "reset_intepreter" => relative_base' = relative_base]_vars

\* C20 witness: a relative base that was not 0 has been adjusted by an
\* operand in Relative mode, after a value was pushed and a cell poked.
C20_Witness ==
    /\ ret.op = "step" /\ ret.state = "Next"
    /\ Len(program) = 6 /\ program[3] = 209 /\ cursor = 4
    /\ relative_base = 4
    /\ pushed # <<>> /\ pokes = 1


\* C21: a step() on Output (its operand at an address that is not negative)
\* returns Next, appends exactly one value, the resolved read operand, to the
\* tail of the output queue, advances the cursor by 2 and leaves memory,
\* relative base and input queue as they were.
C21_Output ==
    [][(ret'.op = "step" /\ InstructionAtCursor(4) /\ Readable(0))
        => (/\ ret'.state = "Next"
            /\ output_stream' = Append(output_stream, ReadOperand(0))
            /\ cursor' = cursor + 2
            /\ UNCHANGED <<data, relative_base, input_stream>>)]_vars


\* C22: from its call to its return run() does nothing but call step(); it
\* goes on while the state returned is Next and returns right after the first
\* step() that returns Wait or Exit.  Hence when run() returns, either the
\* instruction at the cursor is an Input and the input queue is empty, or the
\* last step() returned Exit.
C22_RunLoop ==
    /\ [][ret'.op = "run" => (running' /\ UNCHANGED core)]_vars
    /\ [][running => (/\ ret'.op = "step"
                      /\ running' = (ret'.state = "Next"))]_vars
    /\ [][(running /\ ~running' /\ ret'.state # "Panic")
           => \/ ret'.state = "Exit"
              \/ /\ ret'.state = "Wait"
                 /\ InstructionAtCursor(3)'
                 /\ input_stream' = <<>>]_vars

\* C22 witness: a run() has gone through an Input, which took the value
\* queued, and has returned at the next Input, the queue empty.
C22_Witness ==
    /\ ~running
    /\ ret.op = "step" /\ ret.state = "Wait"
    /\ ret.arg = 2
    /\ cursor = 2 /\ received # <<>>
    /\ input_stream = <<>>
    /\ program[1] = 3


\* C23: run() returns a trace with one line per step() it performed, in the
\* order of execution: it starts empty, and every pass of the loop appends the
\* dump of the instruction decoded by its step() and a newline, the pass
\* whose step() returned Exit or Wait included.  For 3,3,1105,-1,9,1101,0,0,
\* 12,4,12,99,1 with input 8 the trace is STORE 3 / JMPT [8], [9] / SHOW 12 /
\* EXIT.
C23_RunTrace ==
    /\ [][ret'.op = "run" => (ret'.value = "" /\ ret'.arg = 0)]_vars
    /\ [][(running /\ ret'.state # "Panic")
           => (/\ ret'.value = ret.value \o dump(step_opcode) \o "\n"
               /\ ret'.arg = ret.arg + 1)]_vars
    /\ [][(/\ program = trace_code /\ pushed = <<8>>
           /\ running /\ ~running' /\ ret'.arg = 4 /\ cursor' = 11)
           => (/\ ret'.state = "Exit"
               /\ ret'.value = "STORE 3\nJMPT [8], [9]\nSHOW 12\nEXIT\n")]_vars

\* C23 witness: the run() of the test has returned after four passes.
C23_Witness ==
    /\ program = trace_code /\ pushed = <<8>>
    /\ ~running /\ ret.op = "step" /\ ret.state = "Exit"
    /\ ret.arg = 4 /\ cursor = 11
    /\ ret.value = "STORE 3\nJMPT [8], [9]\nSHOW 12\nEXIT\n"


\* s is an initial segment of t.
IsPrefix(s, t) == Len(s) <= Len(t) /\ \A i \in 1 .. Len(s) : s[i] = t[i]

\* C27: the program 109,1,204,-1,1001,100,1,100,1008,100,16,101,1006,101,0,99
\* with no input never fails and never waits, its run() returns after 81
\* passes at most, with Exit, and at Exit its output is its own 16 words in
\* order, the program text is unchanged and memory has grown to hold the
\* cells 100 and 101, which it wrote.
C27_Quine ==
    /\ [](program = quine_code
            => /\ ret.state \notin {"Panic", "Wait"}
               /\ IsPrefix(produced, quine_code)
               /\ output_stream = produced
               /\ running => ret.arg < 81)
    /\ [](program = quine_code /\ ret.state = "Exit"
            => /\ produced = quine_code
               /\ Len(data) = 102 /\ written = 101
               /\ SubSeq(data, 1, 16) = quine_code)
    /\ [][(program = quine_code /\ running /\ ~running')
           => ret'.state = "Exit"]_vars

\* C27 witness: one run() of the program from its start has returned.
C27_Witness ==
    /\ program = quine_code /\ pushed = <<>>
    /\ ~running /\ ret.op = "step" /\ ret.state = "Exit" /\ ret.arg = 81
    /\ output_stream = quine_code
    /\ data[101] = 16 /\ data[102] = 1

\* C28: the program 3,9,8,9,10,9,4,9,99,-1,8 with x as its only input never
\* fails, its run() returns after 4 passes at most, with Exit, and at Exit its
\* output is the single value 1 if x = 8 and 0 otherwise.
C28_EqualsEight ==
    /\ [](program = equals_code /\ Len(pushed) <= 1
            => /\ ret.state # "Panic"
               /\ running => ret.arg < 4)
    /\ [](program = equals_code /\ Len(pushed) = 1 /\ ret.state = "Exit"
            => /\ output_stream = <<IF pushed[1] = 8 THEN 1 ELSE 0>>
               /\ produced = output_stream)
    /\ [][(program = equals_code /\ Len(pushed) = 1 /\ running /\ ~running')
           => ret'.state = "Exit"]_vars

\* C28 witness: a run() with input 8 has returned with output 1.
C28_Witness ==
    /\ program = equals_code /\ pushed = <<8>>
    /\ ~running /\ ret.op = "step" /\ ret.state = "Exit" /\ ret.arg = 4
    /\ output_stream = <<1>>

\* C29: full_code of test_jumps_and_conditions with x as its only input never
\* fails, its run() returns after 10 passes at most, with Exit, and at Exit its
\* output is the single value 999 if x < 8, 1000 if x = 8, 1001 if x > 8.
C29_ThreeWay ==
    /\ [](program = full_code /\ Len(pushed) <= 1
            => /\ ret.state # "Panic"
               /\ running => ret.arg < 10)
    /\ [](program = full_code /\ Len(pushed) = 1 /\ ret.state = "Exit"
            => /\ output_stream = <<CASE pushed[1] < 8 -> 999
                                      [] pushed[1] = 8 -> 1000
                                      [] pushed[1] > 8 -> 1001>>
               /\ produced = output_stream)
    /\ [][(program = full_code /\ Len(pushed) = 1 /\ running /\ ~running')
           => ret'.state = "Exit"]_vars

\* C29 witness: a run() with an input above 8 has returned with output 1001.
C29_Witness ==
    /\ program = full_code /\ Len(pushed) = 1 /\ pushed[1] > 8
    /\ ~running /\ ret.op = "step" /\ ret.state = "Exit"
    /\ output_stream = <<1001>>


\* Both instances have received the same calls, and the last one has returned.
Synced == ~running /\ ((this = "first" /\ ~acted) \/ (this = "second" /\ acted))

\* The two instances agree on what the latest call returned, on the output
\* produced since new() and on memory, cursor, relative base and queues.
Agree ==
    /\ other.ret.op = ret.op /\ other.ret.state = ret.state
    /\ other.ret.value = ret.value /\ other.ret.arg = ret.arg
    /\ other.produced = produced
    /\ other.data = data
    /\ other.cursor = cursor
    /\ other.relative_base = relative_base
    /\ other.input_stream = input_stream
    /\ other.output_stream = output_stream

C26_DebugIsObservabilityOnly ==
    (Synced /\ other.debug # debug) => Agree

\* C26 witness: one instance has executed with the flag set and has printed,
\* the other has printed nothing, and both have produced output.
C26_Witness ==
    /\ Synced /\ other.debug # debug /\ other.printed # printed
    /\ produced # <<>> /\ written >= 0
    /\ ret.op = "step" /\ ret.state = "Exit"


\* The values of seq after its first n.
Drop(seq, n) == SubSeq(seq, n + 1, Len(seq))

\* The queues of an instance hold what the calls made on that instance (and,
\* for a clone, on its original before it was cloned) leave in them: the
\* inputs pushed and not yet read, the outputs produced and not yet popped.
OperatedAlone(instance) ==
    /\ Len(instance.received) <= Len(instance.pushed)
    /\ instance.received = SubSeq(instance.pushed, 1, Len(instance.received))
    /\ instance.input_stream = Drop(instance.pushed, Len(instance.received))
    /\ Len(instance.popped) <= Len(instance.produced)
    /\ instance.output_stream = Drop(instance.produced, Len(instance.popped))

\* C25: a clone starts as a copy of every field of its original and the
\* cloning leaves the original as it was; afterwards a call on one instance
\* leaves memory, cursor, relative base, queues and every other field of the
\* other instance unchanged, whatever the order of the calls, and the queues of
\* each instance hold what its own calls leave in them.
C25_CloneIsIndependent ==
    /\ [][(~other.built /\ other'.built) => (other' = This /\ This' = This)]_vars
    /\ [][(other.built /\ this' = this) => other' = other]_vars
    /\ [][(this' # this) => (other' = This /\ This' = other)]_vars
    /\ [](other.built => (OperatedAlone(This) /\ OperatedAlone(other)))

\* C25 witness: after the cloning both instances were fed and stepped, with
\* different inputs, and their memories and outputs differ.
C25_Witness ==
    /\ other.built
    /\ pushed # <<>> /\ other.pushed # <<>> /\ other.pushed # pushed
    /\ received # <<>> /\ other.received # <<>>
    /\ produced # <<>> /\ other.produced # <<>> /\ other.produced # produced
    /\ other.data # data /\ other.cursor = cursor


\* Sums, comparisons and products of the values of WideInputs, in decimal;
\* "overflow" where the product is beyond i64.
WideTable ==
    { <<"34915192", "34915192", "69830384", "0", "1219070632396864">>,
      <<"34915192", "1125899906842624", "1125899941757816", "1", "overflow">>,
      <<"34915192", "-3000000000", "-2965084808", "0", "-104745576000000000">>,
      <<"34915192", "2147483648", "2182398840", "1", "74979803886780416">>,
      <<"1125899906842624", "34915192", "1125899941757816", "0", "overflow">>,
      <<"1125899906842624", "1125899906842624", "2251799813685248", "0", "overflow">>,
      <<"1125899906842624", "-3000000000", "1125896906842624", "0", "overflow">>,
      <<"1125899906842624", "2147483648", "1125902054326272", "0", "overflow">>,
      <<"-3000000000", "34915192", "-2965084808", "1", "-104745576000000000">>,
      <<"-3000000000", "1125899906842624", "1125896906842624", "1", "overflow">>,
      <<"-3000000000", "-3000000000", "-6000000000", "0", "9000000000000000000">>,
      <<"-3000000000", "2147483648", "-852516352", "1", "-6442450944000000000">>,
      <<"2147483648", "34915192", "2182398840", "0", "74979803886780416">>,
      <<"2147483648", "1125899906842624", "1125902054326272", "1", "overflow">>,
      <<"2147483648", "-3000000000", "-852516352", "0", "-6442450944000000000">>,
      <<"2147483648", "2147483648", "4294967296", "0", "4611686018427387904">> }

\* The row of WideTable for the first two values pushed.
WideRow ==
    CHOOSE row \in WideTable :
        row[1] = i64_to_string(pushed[1]) /\ row[2] = i64_to_string(pushed[2])

\* C30: no step of a program with values beyond 32 bits fails; at Exit
\* 104,1125899906842624,99 has output 1125899906842624 and
\* 1102,34915192,34915192,7,4,7,99,0 has output 1219070632396864 and holds it
\* in cell 7; the program that reads two values beyond 32 bits holds them in
\* cells 30 and 31 as pushed and writes out their exact sum, comparison and
\* product.
C30_WideIntegers ==
    /\ limbs => ret.state # "Panic"
    /\ (limbs /\ program = big_code /\ ret.state = "Exit")
         => dump_output(output_stream) = "1125899906842624"
    /\ (limbs /\ program = product_code /\ ret.state = "Exit")
         => /\ dump_output(output_stream) = "1219070632396864"
            /\ i64_to_string(get_value(data, 7)) = "1219070632396864"
    /\ (limbs /\ program = arith_code /\ Len(received) >= 2)
         => /\ get_value(data, 30) = pushed[1] /\ get_value(data, 31) = pushed[2]
            /\ Len(produced) >= 1 => i64_to_string(produced[1]) = WideRow[3]
            /\ Len(produced) >= 2 => i64_to_string(produced[2]) = WideRow[4]
            /\ Len(produced) >= 3 => i64_to_string(produced[3]) = WideRow[5]
            /\ ret.state = "Exit" => /\ Len(produced) = 3
                                     /\ output_stream = produced

\* C30 witness: the run of 1102,34915192,34915192,7,4,7,99,0 has returned.
C30_Witness ==
    /\ limbs /\ program = product_code
    /\ ~running /\ ret.op = "step" /\ ret.state = "Exit" /\ ret.arg = 3
    /\ ret.value = "MUL [34915192], [34915192], 7\nSHOW 7\nEXIT\n"
    /\ output_stream = <<Signed(FALSE, <<6864, 3239, 706, 1219>>)>>


\* C35: a step() returns Exit only on a well-formed instruction word with
\* opcode 99 at the cursor: never with the cursor at or past the end of memory.
C35_ExitOnlyOnOpcode99 ==
    [][(ret'.op = "step" /\ ret'.state = "Exit") => InstructionAtCursor(99)]_vars

\* C39: a step() that fails on a word that is no instruction (unknown opcode,
\* or a mode digit other than 0, 1, 2) has changed nothing: memory, cursor,
\* relative base, both queues, and the records of the inputs read, the outputs
\* produced and the cells written are those before the step.
C39_DecodeErrorMutatesNothing ==
    [][(ret'.op = "step" /\ ret'.state = "Panic" /\ HasWord /\ BadWord(WordAtCursor))
        => (/\ data' = data /\ cursor' = cursor /\ relative_base' = relative_base
            /\ input_stream' = input_stream /\ output_stream' = output_stream
            /\ received' = received /\ produced' = produced
            /\ written' = written)]_vars

\* C39 witness: a step() has failed on a word with an unknown opcode while
\* inputs were waiting in the queue, after the relative base was moved.
C39_Witness ==
    /\ ret.op = "step" /\ ret.state = "Panic"
    /\ HasWord /\ OpcodeOf(WordAtCursor) \notin (1 .. 9) \cup {99}
    /\ ValidModes(WordAtCursor) /\ WordAtCursor > 0
    /\ cursor = 2 /\ relative_base # 0
    /\ Len(input_stream) = 2 /\ input_stream = pushed
    /\ data = program


(***************************************************************************)
(* src/aocutils/src/interpreter: the earlier revision of the interpreter.  *)
(* Its fields are data, initial, cursor, input_stream and output_stream,   *)
(* with i32 cells; it has neither a relative base nor a step(): run()      *)
(* holds the loop and the match, and ends on Exit, on a cursor outside     *)
(* memory or on a panic.                                                   *)
(***************************************************************************)
\* Programs of the earlier revision: two inputs and an output, an input and
\* two outputs, a sum, a jump over an input, a comparison.
AocutilsPrograms ==
    { <<3, 0, 3, 1, 4, 0, 99>>,
      <<3, 0, 4, 0, 4, 1, 99>>,
      <<1101, 2, 3, 0, 4, 0, 99>>,
      <<1105, 1, 4, 99, 3, 0, 99>>,
      <<1107, 1, 2, 5, 4, 5>> }

\* aocutils OpCode::parse: the names of its match, "panic" for its last arm.
aocutils_OpCode_parse(code) ==
    CASE code = 1 -> "Add"
      [] code = 2 -> "Multiply"
      [] code = 3 -> "Store"
      [] code = 4 -> "Show"
      [] code = 5 -> "JumpIfTrue"
      [] code = 6 -> "JumpIfFalse"
      [] code = 7 -> "LessThan"
      [] code = 8 -> "Equals"
      [] code = 99 -> "Exit"
      [] OTHER -> "panic"

\* aocutils ParameterMode::parse
aocutils_ParameterMode_parse(value) ==
    CASE value = 0 -> "Position"
      [] value = 1 -> "Immediate"
      [] OTHER -> "panic"

\* The while loop of aocutils ParameteredOpCode::parse
RECURSIVE aocutils_modes(_)
aocutils_modes(base) ==
    IF base > 0
    THEN <<aocutils_ParameterMode_parse(rem(base, 10))>> \o aocutils_modes(quot(base, 10))
    ELSE <<>>

\* aocutils ParameteredOpCode::parse
aocutils_ParameteredOpCode_parse(code) ==
    LET name == aocutils_OpCode_parse(rem(code, 100))
        modes == aocutils_modes(quot(code, 100))
    IN  [panic |-> name = "panic" \/ \E i \in 1 .. Len(modes) : modes[i] = "panic",
         code |-> name, modes |-> modes]

\* aocutils ParameteredOpCode::get_parameter_mode
aocutils_get_parameter_mode(opcode, index) ==
    IF index < Len(opcode.modes) THEN opcode.modes[index + 1] ELSE "Position"

\* aocutils Interpreter::get_value: an Option, here a sequence of at most one
\* value.
aocutils_get_value(d, position) ==
    IF position < Len(d) THEN <<d[position + 1]>> ELSE <<>>

\* aocutils Interpreter::get_parametered_value
aocutils_get_parametered_value(d, value, mode) ==
    IF mode = "Immediate" THEN <<value>> ELSE aocutils_get_value(d, as_usize(value))

\* aocutils Interpreter::set_value: self.data[position] = value panics outside
\* memory.
aocutils_set_value(d, position, value) ==
    IF position < Len(d)
    THEN [panic |-> FALSE, data |-> [d EXCEPT ![position + 1] = value]]
    ELSE [panic |-> TRUE, data |-> d]

\* aocutils Interpreter::push_input: Vec::push
aocutils_push_input(ins, input) == Append(ins, input)

\* Mutant of aocutils_pop_input: the head is removed, as the later revision
\* does.
aocutils_pop_input_head(ins) ==
    IF ins = <<>>
    THEN [has |-> FALSE, value |-> 0, rest |-> ins]
    ELSE [has |-> TRUE, value |-> Head(ins), rest |-> Tail(ins)]

\* aocutils Interpreter::pop_input: Vec::pop
aocutils_pop_input(ins) ==
    IF ins = <<>>
    THEN [has |-> FALSE, value |-> 0, rest |-> ins]
    ELSE [has |-> TRUE, value |-> ins[Len(ins)], rest |-> SubSeq(ins, 1, Len(ins) - 1)]

\* aocutils Interpreter::push_output: Vec::push
aocutils_push_output(outs, value) == Append(outs, value)

\* aocutils Interpreter::pop_output: Vec::pop
aocutils_pop_output(outs) ==
    IF outs = <<>>
    THEN [has |-> FALSE, value |-> 0, rest |-> outs]
    ELSE [has |-> TRUE, value |-> outs[Len(outs)],
          rest |-> SubSeq(outs, 1, Len(outs) - 1)]

\* The word of operand k of the instruction at the cursor:
\* get_value_at_cursor() after 1 + k calls of increment_cursor().
aocutils_word(k) == aocutils_get_value(data, cursor + 1 + k)

\* The value of operand k in the mode of the instruction.
aocutils_operand(opcode, k) ==
    IF aocutils_word(k) = <<>> THEN <<>>
    ELSE aocutils_get_parametered_value(data, aocutils_word(k)[1],
                                        aocutils_get_parameter_mode(opcode, k))

\* A pass of the loop that ends in a panic (unwrap, expect or an index out of
\* bounds).
aocutils_panic == Panicked("aocutils")

\* The arms that end with set_value(v3 as usize, value).
aocutils_write(k, value, ins, got) ==
    IF aocutils_word(k) = <<>> THEN aocutils_panic
    ELSE LET w == aocutils_set_value(data, as_usize(aocutils_word(k)[1]), value)
         IN  IF w.panic THEN aocutils_panic
             ELSE Outcome("Next", "aocutils", w.data, cursor + 2 + k, 0, ins,
                          output_stream, got, <<>>, <<as_usize(aocutils_word(k)[1])>>)

\* One pass of the loop of aocutils Interpreter::run; state "Exit" stands for
\* a break.
aocutils_pass ==
    LET word == aocutils_get_value(data, cursor)
        opcode == aocutils_ParameteredOpCode_parse(word[1])
        v1 == aocutils_operand(opcode, 0)
        v2 == aocutils_operand(opcode, 1)
        left == Outcome("Exit", "aocutils", data, cursor + 1, 0, input_stream,
                        output_stream, <<>>, <<>>, <<>>)
    IN  IF word = <<>> THEN left
        ELSE IF opcode.panic THEN aocutils_panic
        ELSE CASE opcode.code = "Exit" -> left
               [] opcode.code = "Store" ->
                    LET p == aocutils_pop_input(input_stream)
                    IN  IF ~p.has THEN aocutils_panic
                        ELSE aocutils_write(0, p.value, p.rest, <<p.value>>)
               [] opcode.code = "Show" ->
                    IF v1 = <<>> THEN aocutils_panic
                    ELSE Outcome("Next", "aocutils", data, cursor + 2, 0, input_stream,
                                 aocutils_push_output(output_stream, v1[1]),
                                 <<>>, v1, <<>>)
               [] opcode.code \in {"JumpIfTrue", "JumpIfFalse"} ->
                    IF v1 = <<>> \/ v2 = <<>> THEN aocutils_panic
                    ELSE Outcome("Next", "aocutils", data,
                                 IF (opcode.code = "JumpIfTrue") = (v1[1] # 0)
                                 THEN as_usize(v2[1]) ELSE cursor + 3,
                                 0, input_stream, output_stream, <<>>, <<>>, <<>>)
               [] OTHER ->
                    IF v1 = <<>> \/ v2 = <<>> THEN aocutils_panic
                    ELSE aocutils_write(2,
                             CASE opcode.code = "Add" -> v1[1] + v2[1]
                               [] opcode.code = "Multiply" -> v1[1] * v2[1]
                               [] opcode.code = "LessThan" ->
                                    IF v1[1] < v2[1] THEN 1 ELSE 0
                               [] opcode.code = "Equals" ->
                                    IF v1[1] = v2[1] THEN 1 ELSE 0,
                             input_stream, <<>>)

\* aocutils Interpreter::new
InitAocutils ==
    /\ program \in AocutilsPrograms
    /\ data = program
    /\ initial = program
    /\ cursor = 0
    /\ output_stream = <<>>
    /\ input_stream = <<>>
    /\ relative_base = 0
    /\ running = FALSE
    /\ ret = Ret("new", "None", FALSE, 0, 0)
    /\ resume = "no"
    /\ pushed = <<>>
    /\ received = <<>>
    /\ produced = <<>>
    /\ popped = <<>>
    /\ exited = "no"
    /\ pokes = 0
    /\ written = -1
    /\ debug = FALSE
    /\ printed = FALSE
    /\ limbs = FALSE
    /\ Unhosted
    /\ Unpaired

\* aocutils Interpreter::push_input
AocutilsPushInput ==
    /\ Alive /\ ~running
    /\ Len(pushed) < MaxPushes
    /\ \E input \in InputVals :
        /\ input_stream' = aocutils_push_input(input_stream, input)
        /\ pushed' = Append(pushed, input)
        /\ ret' = Ret("push_input", "None", FALSE, 0, input)
    /\ UNCHANGED <<data, initial, cursor, output_stream, relative_base, running,
                   program, received, produced, popped, exited, pokes, written,
                   resume, debug, printed>>
    /\ Solo
    /\ UNCHANGED <<limbs, host>>

\* aocutils Interpreter::pop_output
AocutilsPopOutput ==
    /\ Alive /\ ~running
    /\ LET p == aocutils_pop_output(output_stream)
       IN  /\ ret' = Ret("pop_output", "None", p.has, 0, p.value)
           /\ output_stream' = p.rest
           /\ popped' = IF p.has THEN Append(popped, p.value) ELSE popped
    /\ UNCHANGED <<data, initial, cursor, input_stream, relative_base, running,
                   program, pushed, received, produced, exited, pokes, written,
                   resume, debug, printed>>
    /\ Solo
    /\ UNCHANGED <<limbs, host>>

\* aocutils Interpreter::run: entering the loop
AocutilsRun ==
    /\ Alive /\ ~running
    /\ cursor <= MaxLen
    /\ running' = TRUE
    /\ ret' = Ret("run", "None", FALSE, 0, 0)
    /\ UNCHANGED <<core, initial, program, pushed, received, produced, popped,
                   exited, pokes, written, resume, debug, printed>>
    /\ Solo
    /\ UNCHANGED <<limbs, host>>

\* aocutils Interpreter::run: one pass of the loop
AocutilsPass ==
    /\ Alive /\ running
    /\ LET o == aocutils_pass
       IN  /\ WithinBounds(o)
           /\ data' = o.data
           /\ cursor' = o.cursor
           /\ input_stream' = o.input_stream
           /\ output_stream' = o.output_stream
           /\ ret' = Ret("run", o.state, FALSE, ret.arg + 1, 0)
           /\ received' = received \o o.got
           /\ produced' = produced \o o.put
           /\ written' = IF o.wrote # <<>> /\ o.wrote[1] > written
                          THEN o.wrote[1] ELSE written
           /\ running' = (o.state = "Next")
    /\ UNCHANGED <<initial, relative_base, program, pushed, popped, exited, pokes,
                   resume, debug, printed>>
    /\ Solo
    /\ UNCHANGED <<limbs, host>>

\* A program of the earlier days feeds the interpreter, runs it and takes its
\* output.
NextAocutils ==
    \/ AocutilsPushInput
    \/ AocutilsPopOutput
    \/ AocutilsRun
    \/ AocutilsPass

SpecAocutils == InitAocutils /\ [][NextAocutils]_vars

\* C31: in the earlier revision both queues are popped from the tail: an
\* Input instruction takes the value pushed last and leaves the others, so
\* that after push_input(a) and push_input(b) the first Input executed
\* receives b; pop_output returns the value at the tail of the output queue,
\* which is the latest output produced as long as nothing was popped.
C31_StackOrder ==
    [][/\ (ret'.op = "run" /\ received' # received) =>
              /\ input_stream # <<>>
              /\ received' = Append(received, input_stream[Len(input_stream)])
              /\ input_stream' = SubSeq(input_stream, 1, Len(input_stream) - 1)
              /\ (Len(pushed) = 2 /\ received = <<>>) => received'[1] = pushed[2]
       /\ (ret'.op = "pop_output" /\ output_stream # <<>>) =>
              /\ ret'.has
              /\ ret'.value = output_stream[Len(output_stream)]
              /\ output_stream' = SubSeq(output_stream, 1, Len(output_stream) - 1)
              /\ popped = <<>> => ret'.value = produced[Len(produced)]]_vars

\* Witness of C31: 0 then 8 were pushed, the Input instruction received 8,
\* the outputs 8 then 0 were produced and popped as 0 then 8.
C31_Witness ==
    /\ program = <<3, 0, 4, 0, 4, 1, 99>>
    /\ pushed = <<0, 8>> /\ received = <<8>>
    /\ produced = <<8, 0>> /\ popped = <<0, 8>>
    /\ ret.op = "pop_output"


(***************************************************************************)
(* src/day07/src/main.rs: AmplifierSystem.  pc is the function in progress *)
(* and its position, frame holds the locals of the functions in progress   *)
(* (back is the position run_phase returns to) and trail what they         *)
(* returned.                                                               *)
(***************************************************************************)
\* The variables of the Interpreter and of its history.
interpreter ==
    <<data, initial, cursor, input_stream, output_stream, relative_base, running,
      ret, resume, program, pushed, received, produced, popped, exited, pokes,
      written, debug, printed, other, this, acted, limbs>>

\* The locals before any function of AmplifierSystem is entered.
Frame07 ==
    [permutations |-> <<>>, max_value |-> 0, max_permutation |-> "",
     phase_sequence |-> "", seq |-> <<>>, output |-> 0,
     phase |-> 0, input |-> 0, dirty |-> FALSE, back |-> "idle"]

\* The history of AmplifierSystem: the value each run_phase(phase, input)
\* returned, and whether the call found every field of the interpreter
\* changed (dirty, kept in the frame during the call); the calls of
\* run_phase made by the run_phase_sequence in progress; each phase sequence
\* run with its calls and its output; what find_max_thruster_signal
\* returned.
Trail07 == [phases |-> {}, calls |-> <<>>, sequences |-> {}, returned |-> <<>>]

\* (0..5).permutations(5) of itertools: the permutations of the items, in the
\* lexicographic order of their positions.
RECURSIVE permutations(_), permutations_from(_, _)
permutations_from(items, i) ==
    IF i > Len(items) THEN <<>>
    ELSE LET rest == SubSeq(items, 1, i - 1) \o SubSeq(items, i + 1, Len(items))
             tails == permutations(rest)
         IN  [k \in 1 .. Len(tails) |-> <<items[i]>> \o tails[k]]
                 \o permutations_from(items, i + 1)
permutations(items) ==
    IF items = <<>> THEN << <<>> >> ELSE permutations_from(items, 1)

\* permutation.iter().map(|x| x.to_string()).join(",")
phase_sequence_of(permutation) ==
    join_with(",", [i \in 1 .. Len(permutation) |-> ToString(permutation[i])])

\* The phase sequences the functions are given: the permutations of 0..4 and
\* those of 5..9.
PhaseSequences ==
    LET low == permutations(<<0, 1, 2, 3, 4>>)
        high == permutations(<<5, 6, 7, 8, 9>>)
    IN  {low[k] : k \in 1 .. Len(low)} \cup {high[k] : k \in 1 .. Len(high)}

\* phase_sequence.split(',').map(|x| x.parse().unwrap()).collect(): the
\* numbers whose decimal forms, joined by commas, make the text.
parse_sequence(text) == CHOOSE seq \in PhaseSequences : phase_sequence_of(seq) = text

\* Mutant of RunPhase: the interpreter is not reset before the inputs are
\* pushed.
RunPhase_without_reset(phase, input, caller) ==
    /\ Alive /\ ~running
    /\ input_stream' = push_input(push_input(input_stream, phase), input)
    /\ running' = TRUE
    /\ ret' = Ret("run", "None", FALSE, 0, "")
    /\ resume' = "no"
    /\ pushed' = <<phase, input>>
    /\ received' = <<>>
    /\ produced' = <<>>
    /\ popped' = <<>>
    /\ exited' = "no"
    /\ pokes' = 0
    /\ written' = -1
    /\ printed' = (printed \/ debug)
    /\ frame' = [caller EXCEPT !.phase = phase, !.input = input, !.back = pc,
                                !.dirty = FALSE]
    /\ pc' = "run_phase"
    /\ UNCHANGED trail
    /\ UNCHANGED <<data, cursor, relative_base, output_stream>>
    /\ UNCHANGED <<initial, program, debug, limbs, sim>>
    /\ Solo

\* AmplifierSystem::run_phase up to the loop of run(): reset_intepreter(),
\* push_input(phase), push_input(input) and the entry of run().  caller is
\* the frame as the calling function leaves it.
RunPhase(phase, input, caller) ==
    /\ Alive /\ ~running
    /\ data' = initial
    /\ cursor' = 0
    /\ output_stream' = <<>>
    /\ relative_base' = 0
    /\ input_stream' = push_input(push_input(<<>>, phase), input)
    /\ running' = TRUE
    /\ ret' = Ret("run", "None", FALSE, 0, "")
    /\ resume' = "no"
    /\ pushed' = <<phase, input>>
    /\ received' = <<>>
    /\ produced' = <<>>
    /\ popped' = <<>>
    /\ exited' = "no"
    /\ pokes' = 0
    /\ written' = -1
    /\ printed' = (printed \/ debug)
    /\ frame' = [caller EXCEPT !.phase = phase, !.input = input, !.back = pc,
                                !.dirty = /\ data # initial /\ cursor # 0
                                          /\ relative_base # 0
                                          /\ input_stream # <<>>
                                          /\ output_stream # <<>>]
    /\ pc' = "run_phase"
    /\ UNCHANGED trail
    /\ UNCHANGED <<initial, program, debug, limbs, sim>>
    /\ Solo

\* AmplifierSystem::run_phase after run() has returned:
\* interpreter.pop_output().unwrap(), a panic on an empty queue.
RunPhaseReturn ==
    /\ pc = "run_phase" /\ Alive /\ ~running
    /\ IF output_stream = <<>>
       THEN /\ ret' = Ret("pop_output", "Panic", FALSE, 0, 0)
            /\ UNCHANGED <<output_stream, popped, frame, trail, pc>>
       ELSE LET p == pop_output(output_stream)
                call == [phase |-> frame.phase, input |-> frame.input,
                         value |-> p.value, dirty |-> frame.dirty]
                nested == frame.back = "run_phase_sequence"
            IN  /\ ret' = Ret("pop_output", "None", TRUE, 0, p.value)
                /\ output_stream' = p.rest
                /\ popped' = Append(popped, p.value)
                /\ frame' = IF nested THEN [frame EXCEPT !.output = p.value]
                            ELSE frame
                /\ trail' = [trail EXCEPT
                                !.phases = @ \cup {call},
                                !.calls = IF nested THEN Append(@, call) ELSE @]
                /\ pc' = frame.back
    /\ resume' = "no"
    /\ UNCHANGED <<data, initial, cursor, input_stream, relative_base, running,
                   program, pushed, received, produced, exited, pokes, written,
                   debug, printed, limbs, sim>>
    /\ Solo

\* Programs given to run_phase: one that gives back its input signal, one
\* that writes beyond its text and gives back its phase, one that moves the
\* relative base, one without output.
PhasePrograms ==
    { echo_code,
      <<3, 7, 3, 6, 4, 7, 99>>,
      <<109, 1, 203, 0, 204, 0, 99>>,
      <<3, 0, 99>> }

\* The phases given to run_phase.
PhaseVals == {1, 8}

\* Interpreter::new, by a caller of run_phase
InitPhase ==
    /\ program \in PhasePrograms
    /\ data = program
    /\ initial = program
    /\ cursor = 0
    /\ output_stream = <<>>
    /\ input_stream = <<>>
    /\ relative_base = 0
    /\ running = FALSE
    /\ ret = Ret("new", "None", FALSE, 0, 0)
    /\ resume = "no"
    /\ pushed = <<>>
    /\ received = <<>>
    /\ produced = <<>>
    /\ popped = <<>>
    /\ exited = "no"
    /\ pokes = 0
    /\ written = -1
    /\ debug = FALSE
    /\ printed = FALSE
    /\ limbs = FALSE
    /\ pc = "idle"
    /\ frame = Frame07
    /\ sim = <<>>
    /\ trail = Trail07
    /\ Unpaired

\* Between two calls of run_phase the owner of the interpreter feeds it,
\* steps it, takes its output and writes its memory.
Meddle ==
    /\ pc = "idle"
    /\ Step \/ PushInput \/ PopOutput \/ SetValue

\* A call of run_phase by the owner of the interpreter.
CallRunPhase ==
    /\ pc = "idle"
    /\ \E phase \in PhaseVals, input \in InputVals : RunPhase(phase, input, frame)

\* The owner of an interpreter calls run_phase on it again and again, and
\* operates it in between.
NextPhase ==
    \/ Meddle
    \/ CallRunPhase
    \/ RunLoop
    \/ RunPhaseReturn

SpecPhase == InitPhase /\ [][NextPhase]_vars

\* C37: the value run_phase(interpreter, phase, input) returns depends only
\* on the program text, the phase and the input: two calls with the same
\* phase and input on an interpreter of the same text return the same value
\* whatever was done to the interpreter in between, and the run of every
\* call starts from the fields new() gives for the text, with the phase and
\* the input as the only queued inputs.
C37_RunPhaseIsAFunction ==
    /\ \A a, b \in trail.phases :
           (a.phase = b.phase /\ a.input = b.input) => a.value = b.value
    /\ (pc = "run_phase" /\ ret.op = "run") =>
           core = <<program, 0, 0, <<frame.phase, frame.input>>, <<>>>>

\* Witness of C37: run_phase has returned a value to a call that found
\* memory written, the cursor moved, the relative base changed, an unread
\* input and an unpopped output, and to a call with the same phase and
\* input that did not.
C37_Witness ==
    /\ pc = "idle" /\ ret.op = "pop_output" /\ ret.has
    /\ \E a, b \in trail.phases :
           /\ a.phase = b.phase /\ a.input = b.input
           /\ a.dirty /\ ~b.dirty
           /\ b.value = ret.value


\* Interpreter::new, by the tests and part1 of day07
InitSeries ==
    /\ program \in SeriesPrograms
    /\ data = program
    /\ initial = program
    /\ cursor = 0
    /\ output_stream = <<>>
    /\ input_stream = <<>>
    /\ relative_base = 0
    /\ running = FALSE
    /\ ret = Ret("new", "None", FALSE, 0, 0)
    /\ resume = "no"
    /\ pushed = <<>>
    /\ received = <<>>
    /\ produced = <<>>
    /\ popped = <<>>
    /\ exited = "no"
    /\ pokes = 0
    /\ written = -1
    /\ debug = FALSE
    /\ printed = FALSE
    /\ limbs = FALSE
    /\ pc = "idle"
    /\ frame = Frame07
    /\ sim = <<>>
    /\ trail = Trail07
    /\ Unpaired

\* AmplifierSystem::find_max_thruster_signal: the locals before the loop
FindMaxThrusterSignal ==
    /\ pc = "idle" /\ trail.returned = <<>>
    /\ frame' = [frame EXCEPT !.permutations = permutations(<<0, 1, 2, 3, 4>>),
                              !.max_value = 0,
                              !.max_permutation = ""]
    /\ pc' = "find_max_thruster_signal"
    /\ UNCHANGED <<interpreter, sim, trail>>

\* A pass of the loop of find_max_thruster_signal up to the loop of
\* run_phase_sequence: the text of the next permutation, and the locals of
\* run_phase_sequence.
RunPhaseSequence ==
    /\ pc = "find_max_thruster_signal" /\ frame.permutations # <<>>
    /\ LET phase_sequence == phase_sequence_of(Head(frame.permutations))
       IN  frame' = [frame EXCEPT !.permutations = Tail(@),
                                  !.phase_sequence = phase_sequence,
                                  !.seq = parse_sequence(phase_sequence),
                                  !.output = 0]
    /\ trail' = [trail EXCEPT !.calls = <<>>]
    /\ pc' = "run_phase_sequence"
    /\ UNCHANGED <<interpreter, sim>>

\* A pass of the loop of run_phase_sequence: output = run_phase(interpreter,
\* i, output), up to the loop of run().
Stage ==
    /\ pc = "run_phase_sequence" /\ frame.seq # <<>>
    /\ RunPhase(Head(frame.seq), frame.output, [frame EXCEPT !.seq = Tail(@)])

\* The end of run_phase_sequence and the rest of the pass of the loop of
\* find_max_thruster_signal: if output > max_value.
Compare ==
    /\ pc = "run_phase_sequence" /\ frame.seq = <<>>
    /\ frame' = IF frame.output > frame.max_value
                THEN [frame EXCEPT !.max_value = frame.output,
                                   !.max_permutation = frame.phase_sequence]
                ELSE frame
    /\ trail' = [trail EXCEPT !.sequences =
                     @ \cup {[phase_sequence |-> frame.phase_sequence,
                              calls |-> trail.calls, output |-> frame.output]}]
    /\ pc' = "find_max_thruster_signal"
    /\ UNCHANGED <<interpreter, sim>>

\* The end of find_max_thruster_signal: (max_value, max_permutation)
FindMaxReturn ==
    /\ pc = "find_max_thruster_signal" /\ frame.permutations = <<>>
    /\ trail' = [trail EXCEPT !.returned =
                     <<[value |-> frame.max_value,
                        permutation |-> frame.max_permutation]>>]
    /\ pc' = "idle"
    /\ UNCHANGED <<interpreter, sim, frame>>

\* part1 of day07: find_max_thruster_signal on a new interpreter.
NextSeries ==
    \/ FindMaxThrusterSignal
    \/ RunPhaseSequence
    \/ Stage
    \/ RunLoop
    \/ RunPhaseReturn
    \/ Compare
    \/ FindMaxReturn

SpecSeries == InitSeries /\ [][NextSeries]_vars

\* The stages of a phase sequence are chained: stage k is given phase k of
\* the sequence and the output of stage k - 1, the first stage the signal 0,
\* and the output of the sequence is that of the last stage.
Chained(s) ==
    LET phases == parse_sequence(s.phase_sequence)
    IN  /\ Len(s.calls) = Len(phases)
        /\ \A k \in 1 .. Len(s.calls) :
               /\ s.calls[k].phase = phases[k]
               /\ s.calls[k].input = IF k = 1 THEN 0 ELSE s.calls[k - 1].value
        /\ s.output = s.calls[Len(s.calls)].value

\* C34: find_max_thruster_signal returns the largest output of
\* run_phase_sequence over the 120 permutations of the phases 0..4 and a
\* permutation that gives it; the stages of every sequence are chained; the
\* program of the example gives 43210 for 4,3,2,1,0.
C34_MaxThrusterSignal ==
    /\ \A s \in trail.sequences :
           /\ Chained(s)
           /\ (program = amplifier_code /\ s.phase_sequence = "4,3,2,1,0") =>
                  s.output = 43210
    /\ trail.returned # <<>> =>
           /\ Cardinality({s.phase_sequence : s \in trail.sequences}) = 120
           /\ \A s \in trail.sequences : s.output <= trail.returned[1].value
           /\ \E s \in trail.sequences :
                  /\ s.output = trail.returned[1].value
                  /\ s.phase_sequence = trail.returned[1].permutation


(***************************************************************************)
(* src/day07/src/main.rs: AmplifierSystem::run_feedback_phase_sequence.    *)
(* The variables of the Interpreter hold the instance of index             *)
(* frame.index, the one the loop is operating; frame.interpreters holds    *)
(* the others as the loop left them.                                       *)
(***************************************************************************)
\* The phase sequences given to run_feedback_phase_sequence: those of the
\* tests, and the phases in increasing order.
RingSequences == {"9,8,7,6,5", "9,7,8,5,6", "5,6,7,8,9"}

\* The locals before run_feedback_phase_sequence is entered; interpreter is
\* its parameter.
FrameRing(text) ==
    [phase_sequence |-> text, seq |-> <<>>, interpreter |-> NoInstance,
     interpreters |-> <<>>, index |-> 0, last_output |-> 0]

\* The history of run_feedback_phase_sequence: the signals pushed, in order,
\* with the index of the instance popped (-1 for the first signal) and of the
\* instance fed; the value returned.
TrailRing == [sent |-> <<>>, returned |-> <<>>]

\* Interpreter::reset_intepreter on an instance held as a value.
reset_intepreter(instance) ==
    [instance EXCEPT !.data = instance.initial, !.cursor = 0,
                     !.input_stream = <<>>, !.output_stream = <<>>,
                     !.relative_base = 0,
                     !.ret = Ret("reset_intepreter", "None", FALSE, instance.cursor, 0),
                     !.resume = "no", !.pushed = <<>>, !.received = <<>>,
                     !.produced = <<>>, !.popped = <<>>, !.exited = "no",
                     !.pokes = 0, !.written = -1]

\* Interpreter::push_input on an instance held as a value.
fed(instance, input) ==
    [instance EXCEPT !.input_stream = push_input(@, input),
                     !.pushed = Append(@, input),
                     !.ret = Ret("push_input", "None", FALSE, 0, input),
                     !.resume = IF instance.ret.op = "step" /\ instance.ret.state = "Wait"
                                THEN "fed" ELSE "no"]

\* Mutant of amplifiers: the phases are dealt one place further, instance i
\* getting the phase of instance i + 1.
amplifiers_rotated(instance, seq) ==
    [i \in 1 .. 5 |-> fed(reset_intepreter(clone(instance)), seq[(i % 5) + 1])]

\* The five clones after the first loop: each is reset and given its phase,
\* seq.remove(0).
amplifiers(instance, seq) ==
    [i \in 1 .. 5 |-> fed(reset_intepreter(clone(instance)), seq[i])]

\* interpreters.get_mut(index): the loop turns to an instance.
Load(instance) ==
    /\ data' = instance.data
    /\ initial' = instance.initial
    /\ cursor' = instance.cursor
    /\ input_stream' = instance.input_stream
    /\ output_stream' = instance.output_stream
    /\ relative_base' = instance.relative_base
    /\ debug' = instance.debug
    /\ ret' = instance.ret
    /\ resume' = instance.resume
    /\ program' = instance.program
    /\ pushed' = instance.pushed
    /\ received' = instance.received
    /\ produced' = instance.produced
    /\ popped' = instance.popped
    /\ exited' = instance.exited
    /\ pokes' = instance.pokes
    /\ written' = instance.written
    /\ printed' = instance.printed

\* Interpreter::new and the phase sequence, by the tests and part2 of day07
InitRing ==
    /\ program \in RingPrograms
    /\ data = program
    /\ initial = program
    /\ cursor = 0
    /\ output_stream = <<>>
    /\ input_stream = <<>>
    /\ relative_base = 0
    /\ running = FALSE
    /\ ret = Ret("new", "None", FALSE, 0, 0)
    /\ resume = "no"
    /\ pushed = <<>>
    /\ received = <<>>
    /\ produced = <<>>
    /\ popped = <<>>
    /\ exited = "no"
    /\ pokes = 0
    /\ written = -1
    /\ debug = FALSE
    /\ printed = FALSE
    /\ limbs = FALSE
    /\ pc = "idle"
    /\ \E text \in RingSequences : frame = FrameRing(text)
    /\ sim = <<>>
    /\ trail = TrailRing
    /\ Unpaired

\* run_feedback_phase_sequence up to the first inner loop: the clones, their
\* phases, last_output = 0 and the push_input(last_output) on instance 0.
RunFeedbackPhaseSequence ==
    /\ pc = "idle" /\ Alive /\ ~running /\ trail.returned = <<>>
    /\ LET seq == parse_sequence(frame.phase_sequence)
           interpreters == amplifiers(This, seq)
       IN  /\ Load(fed(interpreters[1], 0))
           /\ frame' = [frame EXCEPT !.interpreter = This,
                                     !.interpreters = interpreters,
                                     !.index = 0,
                                     !.last_output = 0]
    /\ trail' = [trail EXCEPT !.sent = <<[from |-> -1, to |-> 0, value |-> 0]>>]
    /\ pc' = "inner"
    /\ UNCHANGED <<running, limbs, sim>>
    /\ Solo

\* The latest step() of the inner loop returned Wait or Exit.
Broke == ret.op = "step" /\ ret.state \in {"Wait", "Exit"}

\* A pass of the inner loop: interp.step()
Amplify ==
    /\ pc = "inner" /\ ~Broke
    /\ Step

\* Mutant of successor: the signal goes to the instance before.
successor_backwards(index) == (index + 4) % 5

\* The instance the loops turn to after the instance of an index: the next of
\* for index in 0..5, and 0 again by the outer loop.
successor(index) == (index + 1) % 5

\* The arms Wait and Exit of the match: last_output =
\* interp.pop_output().unwrap(), then the return for instance 4 on Exit, and
\* else the break and the push_input(last_output) on the next instance.
Forward ==
    /\ pc = "inner" /\ Alive /\ Broke
    /\ IF output_stream = <<>>
       THEN /\ ret' = Ret("pop_output", "Panic", FALSE, 0, 0)
            /\ UNCHANGED <<data, initial, cursor, input_stream, output_stream,
                           relative_base, debug, resume, program, pushed, received,
                           produced, popped, exited, pokes, written, printed>>
            /\ UNCHANGED <<pc, frame, trail>>
       ELSE LET p == pop_output(output_stream)
                left == [This EXCEPT !.output_stream = p.rest,
                                     !.popped = Append(@, p.value),
                                     !.ret = Ret("pop_output", "None", TRUE, 0, p.value),
                                     !.resume = "no"]
                next == successor(frame.index)
            IN  IF ret.state = "Exit" /\ frame.index = 4
                THEN /\ Load(left)
                     /\ frame' = [frame EXCEPT !.last_output = p.value]
                     /\ trail' = [trail EXCEPT !.returned = <<p.value>>]
                     /\ pc' = "idle"
                ELSE /\ Load(fed(frame.interpreters[next + 1], p.value))
                     /\ frame' = [frame EXCEPT !.interpreters[frame.index + 1] = left,
                                               !.index = next,
                                               !.last_output = p.value]
                     /\ trail' = [trail EXCEPT !.sent =
                                      Append(@, [from |-> frame.index, to |-> next,
                                                 value |-> p.value])]
                     /\ pc' = "inner"
    /\ UNCHANGED <<running, limbs, sim>>
    /\ Solo

\* run_feedback_phase_sequence on a new interpreter.
NextRing ==
    \/ RunFeedbackPhaseSequence
    \/ Amplify
    \/ Forward

SpecRing == InitRing /\ [][NextRing]_vars

\* Instance i of the ring, once the clones are made.
Amplifier(i) == IF i = frame.index THEN This ELSE frame.interpreters[i + 1]

\* The signals pushed to instance i, in order.
SignalsTo(i) ==
    LET mine == SelectSeq(trail.sent, LAMBDA m : m.to = i)
    IN  [k \in 1 .. Len(mine) |-> mine[k].value]


\* C32: run_feedback_phase_sequence drives the five instances in the order
\* 0, 1, 2, 3, 4, 0, ...: the first signal, 0, goes to instance 0 after its
\* phase; an instance is stepped until step() returns Wait or Exit; the value
\* then popped from its output is pushed as the next input of instance
\* (i + 1) mod 5, which is stepped next, unless the instance is 4 and the
\* state Exit: the function then returns the value popped.  The first program
\* of the tests returns 139629729 for 9,8,7,6,5.
C32_RoundRobin ==
    /\ [][/\ (pc = "idle" /\ pc' = "inner") =>
                 /\ frame'.index = 0
                 /\ input_stream' = <<parse_sequence(frame.phase_sequence)[1], 0>>
                 /\ cursor' = 0
          /\ (pc = "inner" /\ ~Broke) =>
                 /\ pc' = "inner" /\ frame'.index = frame.index
                 /\ ret'.op = "step"
                 /\ trail' = trail
          /\ (pc = "inner" /\ Broke /\ output_stream # <<>>) =>
                 IF ret.state = "Exit" /\ frame.index = 4
                 THEN /\ pc' = "idle"
                      /\ trail'.returned = <<Head(output_stream)>>
                 ELSE /\ pc' = "inner"
                      /\ trail'.returned = <<>>
                      /\ frame'.index = (frame.index + 1) % 5
                      /\ input_stream' =
                             Append(Amplifier((frame.index + 1) % 5).input_stream,
                                    Head(output_stream))
                      /\ cursor' = Amplifier((frame.index + 1) % 5).cursor]_vars
    /\ []((program = feedback_code /\ frame.phase_sequence = "9,8,7,6,5"
             /\ trail.returned # <<>>) => trail.returned = <<139629729>>)

\* Witness of C32: the first program of the tests has returned 139629729 for
\* 9,8,7,6,5, after 25 signals.
C32_Witness ==
    /\ program = feedback_code /\ frame.phase_sequence = "9,8,7,6,5"
    /\ pc = "idle" /\ trail.returned = <<139629729>>
    /\ Len(trail.sent) = 25

\* C33: whenever run_feedback_phase_sequence returns, each of the five
\* instances has reached the Exit state.
C33_AllExitedOnReturn ==
    trail.returned # <<>> =>
        \A i \in 0 .. 4 : Amplifier(i).exited \in {"yes", "again"}

\* C36: in run_feedback_phase_sequence the first Input instruction instance i
\* completes receives element i of the phase sequence, and the later ones the
\* signals forwarded to the instance, in the order of forwarding: what an
\* instance has received is a prefix of its phase followed by its signals, so
\* that no instance receives the phase of another.
C36_PhaseThenSignals ==
    pc = "inner" \/ trail.returned # <<>> =>
        \A i \in 0 .. 4 :
            IsPrefix(Amplifier(i).received,
                     <<parse_sequence(frame.phase_sequence)[i + 1]>> \o SignalsTo(i))

\* Witness of C36: the second program of the tests has returned, and each
\* instance has received its phase and ten signals.
C36_Witness ==
    /\ program = feedback_code_2 /\ frame.phase_sequence = "9,7,8,5,6"
    /\ trail.returned = <<18216>>
    /\ \A i \in 0 .. 4 :
           /\ Len(Amplifier(i).received) = 11
           /\ Amplifier(i).received[1] = parse_sequence(frame.phase_sequence)[i + 1]


(***************************************************************************)
(* src/day11/src/main.rs: DrawSim.  The variables of the Interpreter hold  *)
(* DrawSim.interpreter, sim the fields tiles and robot_position, frame the *)
(* locals of DrawSim::run and trail the paints it made.                    *)
(***************************************************************************)
\* Color::to_code
to_code(color) == IF color = "Black" THEN 0 ELSE 1

\* Color::from_code; "panic" is the panic of its last arm.
from_code(code) ==
    CASE code = 0 -> "Black"
      [] code = 1 -> "White"
      [] OTHER -> "panic"

\* Direction::rotate_right
rotate_right(direction) ==
    CASE direction = "Up" -> "Right"
      [] direction = "Right" -> "Down"
      [] direction = "Down" -> "Left"
      [] direction = "Left" -> "Up"

\* Direction::rotate_left
rotate_left(direction) ==
    CASE direction = "Up" -> "Left"
      [] direction = "Left" -> "Down"
      [] direction = "Down" -> "Right"
      [] direction = "Right" -> "Up"

\* Direction::with_rotation_code; "panic" is the panic of its last arm.
with_rotation_code(direction, code) ==
    CASE code = 0 -> rotate_left(direction)
      [] code = 1 -> rotate_right(direction)
      [] OTHER -> "panic"

\* Direction::to_offset
to_offset(direction) ==
    CASE direction = "Up" -> <<0, -1>>
      [] direction = "Down" -> <<0, 1>>
      [] direction = "Left" -> <<-1, 0>>
      [] direction = "Right" -> <<1, 0>>

\* DrawSim::paint_position: self.tiles.insert(self.robot_position, color)
paint_position(tiles, robot_position, color) ==
    [pos \in (DOMAIN tiles) \cup {robot_position} |->
        IF pos = robot_position THEN color ELSE tiles[pos]]

\* DrawSim::get_color_at_position
get_color_at_position(tiles, pos) ==
    IF pos \in DOMAIN tiles THEN tiles[pos] ELSE "Black"

\* DrawSim::move_robot
move_robot(robot_position, direction) ==
    <<robot_position[1] + to_offset(direction)[1],
      robot_position[2] + to_offset(direction)[2]>>

\* The locals of DrawSim::run.
FrameSim == [direction |-> "Up", color |-> "Black"]

\* The history of DrawSim::run: its paints, each with the panel painted, the
\* color, the direction taken and the panel moved to; whether it has
\* returned.
TrailSim == [painted |-> <<>>, done |-> FALSE]

\* DrawSim::new
InitSim ==
    /\ program \in RobotPrograms
    /\ data = program
    /\ initial = program
    /\ cursor = 0
    /\ output_stream = <<>>
    /\ input_stream = <<>>
    /\ relative_base = 0
    /\ running = FALSE
    /\ ret = Ret("new", "None", FALSE, 0, 0)
    /\ resume = "no"
    /\ pushed = <<>>
    /\ received = <<>>
    /\ produced = <<>>
    /\ popped = <<>>
    /\ exited = "no"
    /\ pokes = 0
    /\ written = -1
    /\ debug = FALSE
    /\ printed = FALSE
    /\ limbs = FALSE
    /\ pc = "idle"
    /\ frame = FrameSim
    /\ sim = [tiles |-> <<>>, robot_position |-> <<0, 0>>]
    /\ trail = TrailSim
    /\ Unpaired

\* DrawSim::run up to its loop, by part1 (Color::Black) and part2
\* (Color::White)
DrawSimRun ==
    /\ pc = "idle" /\ ~trail.done
    /\ \E base_color \in {"Black", "White"} :
           frame' = [direction |-> "Up", color |-> base_color]
    /\ pc' = "run"
    /\ UNCHANGED <<interpreter, sim, trail>>

\* DrawSim::step up to its loop: self.interpreter.push_input(color.to_code())
DrawSimStep ==
    /\ pc = "run" /\ Alive
    /\ input_stream' = push_input(input_stream, to_code(frame.color))
    /\ pushed' = Append(pushed, to_code(frame.color))
    /\ ret' = Ret("push_input", "None", FALSE, 0, to_code(frame.color))
    /\ resume' = IF LastWait THEN "fed" ELSE "no"
    /\ pc' = "step"
    /\ UNCHANGED <<data, initial, cursor, output_stream, relative_base, running,
                   program, received, produced, popped, exited, pokes, written,
                   debug, printed, limbs, frame, sim, trail>>
    /\ Solo

\* A pass of the loop of DrawSim::step: self.interpreter.step()
Draw ==
    /\ pc = "step" /\ ~Broke
    /\ Step

\* The arms Wait and Exit of the match of DrawSim::step and the rest of the
\* pass of the loop of DrawSim::run.  On Wait two outputs are popped, the
\* color and the rotation code, the panel is painted and the robot moved; on
\* Exit nothing is popped and run() leaves its loop.
Paint ==
    /\ pc = "step" /\ Alive /\ Broke
    /\ IF ret.state = "Exit"
       THEN /\ trail' = [trail EXCEPT !.done = TRUE]
            /\ pc' = "idle"
            /\ UNCHANGED <<ret, output_stream, popped, frame, sim>>
       ELSE LET first == pop_output(output_stream)
                second == pop_output(first.rest)
                new_color == from_code(first.value)
                new_direction == with_rotation_code(frame.direction, second.value)
                moved == move_robot(sim.robot_position, new_direction)
                tiles == paint_position(sim.tiles, sim.robot_position, new_color)
            IN  IF output_stream = <<>> \/ new_color = "panic"
                THEN /\ ret' = Ret("pop_output", "Panic", FALSE, 0, 0)
                     /\ UNCHANGED <<output_stream, popped, frame, sim, trail, pc>>
                ELSE IF first.rest = <<>> \/ new_direction = "panic"
                THEN /\ ret' = Ret("pop_output", "Panic", FALSE, 0, 0)
                     /\ output_stream' = first.rest
                     /\ popped' = Append(popped, first.value)
                     /\ UNCHANGED <<frame, sim, trail, pc>>
                ELSE /\ ret' = Ret("pop_output", "None", TRUE, 0, second.value)
                     /\ output_stream' = second.rest
                     /\ popped' = popped \o <<first.value, second.value>>
                     /\ sim' = [tiles |-> tiles, robot_position |-> moved]
                     /\ frame' = [direction |-> new_direction,
                                  color |-> get_color_at_position(tiles, moved)]
                     /\ trail' = [trail EXCEPT !.painted =
                                      Append(@, [position |-> sim.robot_position,
                                                 color |-> new_color,
                                                 direction |-> new_direction,
                                                 moved |-> moved])]
                     /\ pc' = "run"
    /\ resume' = "no"
    /\ UNCHANGED <<data, initial, cursor, input_stream, relative_base, running,
                   program, pushed, received, produced, exited, pokes, written,
                   debug, printed, limbs>>
    /\ Solo

\* part1 and part2 of day11: DrawSim::run on a new DrawSim.
NextSim ==
    \/ DrawSimRun
    \/ DrawSimStep
    \/ Draw
    \/ Paint

SpecSim == InitSim /\ [][NextSim]_vars

\* The panel and the direction of the robot after the first k pairs of
\* outputs: it starts on <<0, 0>> facing up, and each pair turns it left (0)
\* or right (1) and moves it one panel.
RECURSIVE Walk(_)
Walk(k) ==
    IF k = 0 THEN [position |-> <<0, 0>>, direction |-> "Up"]
    ELSE LET before == Walk(k - 1)
             direction == IF produced[2 * k] = 0
                          THEN rotate_left(before.direction)
                          ELSE rotate_right(before.direction)
         IN  [position |-> move_robot(before.position, direction),
              direction |-> direction]

\* C38: the driver of the painting robot applies every pair of outputs of the
\* program, the pair output just before Exit included: when run() has
\* returned there are as many paints as pairs produced, paint k was made on
\* the panel the robot stood on after k - 1 pairs, with the first value of
\* pair k, and was followed by the turn of its second value and a move of one
\* panel.
C38_EveryPairPainted ==
    trail.done =>
        /\ Len(produced) = 2 * Len(trail.painted)
        /\ \A k \in 1 .. Len(trail.painted) :
               /\ trail.painted[k].position = Walk(k - 1).position
               /\ trail.painted[k].color = from_code(produced[2 * k - 1])
               /\ trail.painted[k].direction = Walk(k).direction
               /\ trail.painted[k].moved = Walk(k).position
        /\ sim.robot_position = Walk(Len(trail.painted)).position

====
